---- MODULE Spec2Model ----
(***************************************************************************)
(* A model of the FreeCoAP TLS/IPv6 socket library (tls6sock.c).           *)
(*                                                                         *)
(* Every library function is an operator that transforms a "world" record  *)
(* (descriptor table, TLS sessions, client session cache, the tls6sock_t   *)
(* and tls6ssock_t structures) and appends the external calls it makes to  *)
(* an event log.  The outcomes of the operating system, of the TLS engine  *)
(* and of the peer are inputs of the calls.                                *)
(***************************************************************************)
EXTENDS Integers, Sequences, FiniteSets, TLC

VARIABLES fds, sessions, eng, cache, s, ss, up, lup, stored, wire, flight, written, last

vars == <<fds, sessions, eng, cache, s, ss, up, lup, stored, wire, flight, written, last>>

(***************************************************************************)
(* Bounds of the model                                                     *)
(***************************************************************************)
MaxFd == 3          \* descriptors 0..MaxFd exist; socket()/accept() fail beyond
MaxSess == 2        \* TLS session handles 1..MaxSess
MaxTicket == 2      \* distinct opaque session tickets 1..MaxTicket
MaxRetry == 1       \* would-block rounds before a loop's final outcome
MaxCand == 2        \* getaddrinfo candidates per resolution
MaxWire == 3        \* items the peer may have sent and the reader not yet consumed
MaxLen == 3         \* largest length asked of read / read_full

(***************************************************************************)
(* Values                                                                  *)
(***************************************************************************)
TLS6SOCK_CLIENT == "TLS6SOCK_CLIENT"
TLS6SOCK_SERVER == "TLS6SOCK_SERVER"
ZeroType == "zero"

SOCK_OK == "SOCK_OK"
SOCK_INTR == "SOCK_INTR"
SOCK_TIMEOUT == "SOCK_TIMEOUT"
SOCK_ARG_ERROR == "SOCK_ARG_ERROR"
SOCK_OPEN_ERROR == "SOCK_OPEN_ERROR"
SOCK_CONFIG_ERROR == "SOCK_CONFIG_ERROR"
SOCK_BIND_ERROR == "SOCK_BIND_ERROR"
SOCK_LISTEN_ERROR == "SOCK_LISTEN_ERROR"
SOCK_ACCEPT_ERROR == "SOCK_ACCEPT_ERROR"
SOCK_ADDR_ERROR == "SOCK_ADDR_ERROR"
SOCK_CONNECT_ERROR == "SOCK_CONNECT_ERROR"
SOCK_READ_ERROR == "SOCK_READ_ERROR"
SOCK_WRITE_ERROR == "SOCK_WRITE_ERROR"
SOCK_TLS_CONFIG_ERROR == "SOCK_TLS_CONFIG_ERROR"
SOCK_TLS_CACHE_ERROR == "SOCK_TLS_CACHE_ERROR"
SOCK_TLS_HANDSHAKE_ERROR == "SOCK_TLS_HANDSHAKE_ERROR"
SOCK_TLS_WARNING_ALERT == "SOCK_TLS_WARNING_ALERT"
SOCK_TLS_REHANDSHAKE_REFUSED_ERROR == "SOCK_TLS_REHANDSHAKE_REFUSED_ERROR"
SOCK_PEER_CERT_VERIFY_ERROR == "SOCK_PEER_CERT_VERIFY_ERROR"

\* outcomes of the TLS engine
GNUTLS_E_SUCCESS == "GNUTLS_E_SUCCESS"
GNUTLS_E_AGAIN == "GNUTLS_E_AGAIN"
GNUTLS_E_INTERRUPTED == "GNUTLS_E_INTERRUPTED"
GNUTLS_E_WARNING_ALERT_RECEIVED == "GNUTLS_E_WARNING_ALERT_RECEIVED"
GNUTLS_E_REHANDSHAKE == "GNUTLS_E_REHANDSHAKE"
GNUTLS_E_OTHER == "GNUTLS_E_OTHER"       \* any other (negative) engine error

\* outcomes of select(): a positive count, 0, or -1 with errno
SEL_READY == "SEL_READY"
SEL_TIMEOUT == "SEL_TIMEOUT"
SEL_EINTR == "SEL_EINTR"
SEL_FAIL == "SEL_FAIL"
SelOutcomes == {SEL_READY, SEL_TIMEOUT, SEL_EINTR, SEL_FAIL}
SEL_ARRIVE == "SEL_ARRIVE"               \* the wait ends because data arrives

\* alerts gnutls_alert_get can report
GNUTLS_A_NO_RENEGOTIATION == "GNUTLS_A_NO_RENEGOTIATION"
GNUTLS_A_OTHER == "GNUTLS_A_OTHER"
Alerts == {GNUTLS_A_NO_RENEGOTIATION, GNUTLS_A_OTHER}

Fds == 0 .. MaxFd
Tickets == 1 .. MaxTicket
Timeouts == {-1, 30}

\* IPv6 addresses: eight 16-bit groups (the model uses the values 0 and 1)
ZeroAddr == <<0, 0, 0, 0, 0, 0, 0, 0>>
Addrs == { <<0, 0, 0, 0, 0, 0, 0, 1>>, <<1, 0, 0, 0, 0, 0, 0, 1>> }
Ports == {9999}
Sins == [addr : Addrs, port : Ports]
ZeroSin == [addr |-> ZeroAddr, port |-> 0]

\* memset(s, 0, sizeof(tls6sock_t))
ZeroSock == [type |-> ZeroType, sd |-> 0, sin |-> ZeroSin, session |-> 0, timeout |-> 0]
\* memset(ss, 0, sizeof(tls6ssock_t))
ZeroSSock == [sd |-> 0, timeout |-> 0, port |-> 0]

\* the state of the TLS session s->session points to
NoEng == [seed |-> 0, db |-> FALSE, transport |-> -1, hs |-> FALSE, verified |-> FALSE]

(***************************************************************************)
(* The event log of one call                                               *)
(***************************************************************************)
Log(w, name, arg) == [w EXCEPT !.ev = Append(@, <<name, arg>>)]

Names(ev) == [i \in 1 .. Len(ev) |-> ev[i][1]]

Count(ev, name) == Cardinality({i \in 1 .. Len(ev) : ev[i][1] = name})

CountArg(ev, name, arg) == Cardinality({i \in 1 .. Len(ev) : ev[i] = <<name, arg>>})

Has(ev, name) == \E i \in 1 .. Len(ev) : ev[i][1] = name

First(ev, name) == CHOOSE i \in 1 .. Len(ev) : ev[i][1] = name /\ \A j \in 1 .. i - 1 : ev[j][1] # name

\* every occurrence of a precedes every occurrence of b
Before(ev, a, b) == \A i, j \in 1 .. Len(ev) : (ev[i][1] = a /\ ev[j][1] = b) => i < j

Min(S) == CHOOSE x \in S : \A y \in S : x <= y

Range(q) == { q[i] : i \in 1 .. Len(q) }

\* The integer values of the outcomes.  The engine's are those of gnutls.h; select
\* gives a positive count, 0, or -1 (written here as minus its errno); the library's
\* error kinds are negative (tls6sock.c, "< 0, error") and numbered in a fixed order.
CodeTable ==
    [GNUTLS_E_SUCCESS |-> 0, GNUTLS_E_AGAIN |-> -28, GNUTLS_E_INTERRUPTED |-> -52,
     GNUTLS_E_WARNING_ALERT_RECEIVED |-> -16, GNUTLS_E_REHANDSHAKE |-> -37, GNUTLS_E_OTHER |-> -9,
     SEL_READY |-> 1, SEL_TIMEOUT |-> 0, SEL_EINTR |-> -4, SEL_FAIL |-> -9, SEL_ARRIVE |-> 1,
     SOCK_OK |-> 0, SOCK_INTR |-> -1, SOCK_TIMEOUT |-> -2, SOCK_READ_ERROR |-> -3,
     SOCK_WRITE_ERROR |-> -4, SOCK_TLS_HANDSHAKE_ERROR |-> -5, SOCK_TLS_WARNING_ALERT |-> -6,
     GNUTLS_A_NO_RENEGOTIATION |-> 100, GNUTLS_A_OTHER |-> 112]

Code(name) == CodeTable[name]

(***************************************************************************)
(* Operating system primitives                                             *)
(***************************************************************************)
\* socket(): the lowest free descriptor, or -1
sys_socket(w, ok) ==
    LET free == Fds \ w.fds IN
    IF ok /\ free # {}
    THEN Log([w EXCEPT !.fds = @ \cup {Min(free)}, !.rv = Min(free)], "socket", Min(free))
    ELSE Log([w EXCEPT !.rv = -1], "socket", -1)

\* close(sd): closing a descriptor that is not open is EBADF
sys_close(w, sd) ==
    IF sd \in w.fds
    THEN Log([w EXCEPT !.fds = @ \ {sd}], "close", sd)
    ELSE Log(w, "close_EBADF", sd)

\* gnutls_init(): a fresh session handle
gnutls_init(w, ok) ==
    LET free == (1 .. MaxSess) \ w.sessions IN
    IF ok /\ free # {}
    THEN Log([w EXCEPT !.sessions = @ \cup {Min(free)}, !.eng = NoEng,
                       !.s.session = Min(free), !.rv = GNUTLS_E_SUCCESS], "gnutls_init", Min(free))
    ELSE Log([w EXCEPT !.rv = GNUTLS_E_OTHER], "gnutls_init", 0)

\* gnutls_deinit(session): releasing a session that is not live is a double free
gnutls_deinit(w, h) ==
    IF h \in w.sessions
    THEN Log([w EXCEPT !.sessions = @ \ {h}, !.eng = NoEng], "gnutls_deinit", h)
    ELSE Log(w, "gnutls_deinit_BAD", h)

(***************************************************************************)
(* tls6sock_get_addr_string_: inet_ntop(AF_INET6, ...), the text of an     *)
(* address as a sequence of characters.  The longest run of two or more    *)
(* zero groups (the first one on a tie) is written "::"; an address whose  *)
(* first six groups are zero ends in dotted-quad form.                     *)
(***************************************************************************)
HexDigit == <<"0", "1", "2", "3", "4", "5", "6", "7", "8", "9", "a", "b", "c", "d", "e", "f">>

RECURSIVE Hex(_)
Hex(v) == IF v < 16 THEN <<HexDigit[v + 1]>> ELSE Hex(v \div 16) \o <<HexDigit[(v % 16) + 1]>>

RECURSIVE Dec(_)
Dec(v) == IF v < 10 THEN <<HexDigit[v + 1]>> ELSE Dec(v \div 10) \o <<HexDigit[(v % 10) + 1]>>

\* maximal runs of zero groups, as <<base, len>>
ZeroRuns(a) ==
    { r \in (1 .. 8) \X (1 .. 8) :
        /\ r[1] + r[2] - 1 <= 8
        /\ \A i \in r[1] .. r[1] + r[2] - 1 : a[i] = 0
        /\ (r[1] = 1 \/ a[r[1] - 1] # 0)
        /\ (r[1] + r[2] - 1 = 8 \/ a[r[1] + r[2]] # 0) }

BestRun(a) ==
    LET long == { r \in ZeroRuns(a) : r[2] >= 2 } IN
    IF long = {} THEN <<0, 0>>
    ELSE CHOOSE r \in long : \A q \in long : q[2] < r[2] \/ (q[2] = r[2] /\ q[1] >= r[1])

Ntop4(hi, lo) ==
    Dec(hi \div 256) \o <<".">> \o Dec(hi % 256) \o <<".">> \o Dec(lo \div 256) \o <<".">> \o Dec(lo % 256)

RECURSIVE Ntop6(_, _, _)
Ntop6(a, best, i) ==
    IF i > 8 THEN (IF best[1] # 0 /\ best[1] + best[2] - 1 = 8 THEN <<":">> ELSE <<>>)
    ELSE IF best[1] # 0 /\ i >= best[1] /\ i < best[1] + best[2]
         THEN (IF i = best[1] THEN <<":">> ELSE <<>>) \o Ntop6(a, best, i + 1)
    ELSE IF i = 7 /\ best[1] = 1 /\ (best[2] = 6 \/ (best[2] = 5 /\ a[6] = 65535))
         THEN <<":">> \o Ntop4(a[7], a[8])
    ELSE (IF i # 1 THEN <<":">> ELSE <<>>) \o Hex(a[i]) \o Ntop6(a, best, i + 1)

\* the text of the last group only
AddrStringLastGroup(addr) == Hex(addr[8])

tls6sock_get_addr_string_(addr) == Ntop6(addr, BestRun(addr), 1)

(***************************************************************************)
(* The client session cache (tls_client_cache_get / tls_client_cache_set): *)
(* a store from address text to ticket; 0 is the empty datum.              *)
(***************************************************************************)
Keys == { tls6sock_get_addr_string_(a) : a \in Addrs \cup {ZeroAddr} }

EmptyCache == [k \in Keys |-> 0]

tls_client_cache_get(w, key) == Log([w EXCEPT !.rv = w.cache[key]], "cache_get", w.cache[key])

tls_client_cache_set(w, key, datum) == Log([w EXCEPT !.cache[key] = datum], "cache_set", datum)

(***************************************************************************)
(* tls6sock_handshake: script is the sequence of outcomes of               *)
(* gnutls_handshake and, after each would-block, of select.                *)
(***************************************************************************)
Ret(w, r) == [w EXCEPT !.rv = r]

\* a handshake that reports the expiry of its wait as a handshake error
RECURSIVE HandshakeExpiryAsError(_, _)
HandshakeExpiryAsError(w, script) ==
    LET ret == IF script = <<>> THEN GNUTLS_E_AGAIN ELSE Head(script)
        w1 == Log(w, "gnutls_handshake", Code(ret))
    IN
    IF ret = GNUTLS_E_SUCCESS THEN Ret([w1 EXCEPT !.eng.hs = TRUE], SOCK_OK)
    ELSE IF ret = GNUTLS_E_WARNING_ALERT_RECEIVED THEN Ret(w1, SOCK_TLS_WARNING_ALERT)
    ELSE IF ret = GNUTLS_E_INTERRUPTED THEN Ret(w1, SOCK_INTR)
    ELSE IF ret # GNUTLS_E_AGAIN THEN Ret(w1, SOCK_TLS_HANDSHAKE_ERROR)
    ELSE LET sel == IF Len(script) < 2 THEN SEL_TIMEOUT ELSE script[2]
             w2 == Log(w1, "select_read", Code(sel))
         IN
         IF sel = SEL_TIMEOUT THEN Ret(w2, SOCK_TLS_HANDSHAKE_ERROR)
         ELSE IF sel = SEL_EINTR THEN Ret(w2, SOCK_INTR)
         ELSE IF sel = SEL_FAIL THEN Ret(w2, SOCK_TLS_HANDSHAKE_ERROR)
         ELSE HandshakeExpiryAsError(w2, Tail(Tail(script)))

RECURSIVE tls6sock_handshake(_, _)
tls6sock_handshake(w, script) ==
    LET ret == IF script = <<>> THEN GNUTLS_E_AGAIN ELSE Head(script)
        w1 == Log(w, "gnutls_handshake", Code(ret))
    IN
    IF ret = GNUTLS_E_SUCCESS THEN Ret([w1 EXCEPT !.eng.hs = TRUE], SOCK_OK)
    ELSE IF ret = GNUTLS_E_WARNING_ALERT_RECEIVED THEN Ret(w1, SOCK_TLS_WARNING_ALERT)
    ELSE IF ret = GNUTLS_E_INTERRUPTED THEN Ret(w1, SOCK_INTR)
    ELSE IF ret # GNUTLS_E_AGAIN THEN Ret(w1, SOCK_TLS_HANDSHAKE_ERROR)
    ELSE LET sel == IF Len(script) < 2 THEN SEL_TIMEOUT ELSE script[2]
             w2 == Log(w1, "select_read", Code(sel))
         IN
         IF sel = SEL_TIMEOUT THEN Ret(w2, SOCK_TIMEOUT)
         ELSE IF sel = SEL_EINTR THEN Ret(w2, SOCK_INTR)
         ELSE IF sel = SEL_FAIL THEN Ret(w2, SOCK_TLS_HANDSHAKE_ERROR)
         ELSE tls6sock_handshake(w2, Tail(Tail(script)))

\* the scripts a handshake is run on: would-block rounds, then a final outcome
RECURSIVE Retries(_)
Retries(n) == IF n = 0 THEN <<>> ELSE <<GNUTLS_E_AGAIN, SEL_READY>> \o Retries(n - 1)

HsFinals ==
    { <<GNUTLS_E_SUCCESS>>, <<GNUTLS_E_WARNING_ALERT_RECEIVED>>, <<GNUTLS_E_INTERRUPTED>>,
      <<GNUTLS_E_OTHER>>, <<GNUTLS_E_AGAIN, SEL_TIMEOUT>>, <<GNUTLS_E_AGAIN, SEL_EINTR>>,
      <<GNUTLS_E_AGAIN, SEL_FAIL>> }

HsScripts == { Retries(n) \o f : n \in 0 .. MaxRetry, f \in HsFinals }

HsOkScript == <<GNUTLS_E_SUCCESS>>

(***************************************************************************)
(* tls6sock_verify_peer_cert.  A certificate case gives what the engine    *)
(* reports about the peer's chain and its leaf certificate.                *)
(***************************************************************************)
GNUTLS_CERT_INVALID == "GNUTLS_CERT_INVALID"
GNUTLS_CERT_SIGNER_NOT_FOUND == "GNUTLS_CERT_SIGNER_NOT_FOUND"
GNUTLS_CERT_SIGNER_NOT_CA == "GNUTLS_CERT_SIGNER_NOT_CA"
GNUTLS_CERT_REVOKED == "GNUTLS_CERT_REVOKED"
StatusFlags == {GNUTLS_CERT_INVALID, GNUTLS_CERT_SIGNER_NOT_FOUND, GNUTLS_CERT_SIGNER_NOT_CA,
                GNUTLS_CERT_REVOKED}
GNUTLS_CRT_X509 == "GNUTLS_CRT_X509"
GNUTLS_CRT_OTHER == "GNUTLS_CRT_OTHER"

NoName == "NULL"                 \* common_name == NULL
CommonNames == {NoName, "server"}
CertNames == {"server", "other"}

\* the current time of the model, and the timestamps a certificate may carry (-1: undefined)
Now == 1
MaxTime == 2
TimeStamps == -1 .. MaxTime

GoodCert ==
    [verify |-> TRUE, status |-> {}, type |-> GNUTLS_CRT_X509, crt_init |-> TRUE, peers |-> TRUE,
     import |-> TRUE, expiration |-> MaxTime, activation |-> 0, name |-> "server"]

CertCases ==
    {GoodCert, [GoodCert EXCEPT !.verify = FALSE], [GoodCert EXCEPT !.type = GNUTLS_CRT_OTHER],
     [GoodCert EXCEPT !.crt_init = FALSE], [GoodCert EXCEPT !.peers = FALSE],
     [GoodCert EXCEPT !.import = FALSE], [GoodCert EXCEPT !.name = "other"]}
    \cup { [GoodCert EXCEPT !.status = {f}] : f \in StatusFlags }
    \cup { [GoodCert EXCEPT !.expiration = t] : t \in TimeStamps }
    \cup { [GoodCert EXCEPT !.activation = t] : t \in TimeStamps }

\* gnutls_x509_crt_check_hostname: non-zero when the certificate's owner matches
gnutls_x509_crt_check_hostname(cert, common_name) == cert.name = common_name

tls6sock_verify_peer_cert(w, common_name, cert) ==
    LET w1 == Log(w, "verify_peers", w.s.session) IN
    IF ~cert.verify THEN Ret(w1, SOCK_PEER_CERT_VERIFY_ERROR)
    ELSE IF GNUTLS_CERT_INVALID \in cert.status THEN Ret(w1, SOCK_PEER_CERT_VERIFY_ERROR)
    ELSE IF GNUTLS_CERT_SIGNER_NOT_FOUND \in cert.status THEN Ret(w1, SOCK_PEER_CERT_VERIFY_ERROR)
    ELSE IF GNUTLS_CERT_SIGNER_NOT_CA \in cert.status THEN Ret(w1, SOCK_PEER_CERT_VERIFY_ERROR)
    ELSE IF GNUTLS_CERT_REVOKED \in cert.status THEN Ret(w1, SOCK_PEER_CERT_VERIFY_ERROR)
    ELSE IF cert.type # GNUTLS_CRT_X509 THEN Ret(w1, SOCK_PEER_CERT_VERIFY_ERROR)
    ELSE IF ~cert.crt_init THEN Ret(w1, SOCK_PEER_CERT_VERIFY_ERROR)
    ELSE IF ~cert.peers THEN Ret(w1, SOCK_PEER_CERT_VERIFY_ERROR)
    ELSE IF ~cert.import THEN Ret(w1, SOCK_PEER_CERT_VERIFY_ERROR)
    ELSE IF cert.expiration = -1 \/ cert.expiration < Now THEN Ret(w1, SOCK_PEER_CERT_VERIFY_ERROR)
    ELSE IF cert.activation = -1 \/ cert.activation > Now THEN Ret(w1, SOCK_PEER_CERT_VERIFY_ERROR)
    ELSE IF common_name # NoName /\ ~gnutls_x509_crt_check_hostname(cert, common_name)
         THEN Ret(w1, SOCK_PEER_CERT_VERIFY_ERROR)
    ELSE Ret([w1 EXCEPT !.eng.verified = TRUE], SOCK_OK)

(***************************************************************************)
(* tls6sock_open_: the part of construction the client and the server      *)
(* share.  env gives the outcome of each step that can fail.               *)
(***************************************************************************)
GoodEnv ==
    [socket |-> TRUE, connect |-> TRUE, nonblock |-> TRUE, init |-> TRUE, priority |-> TRUE,
     cred |-> TRUE, set_data |-> TRUE, hs |-> HsOkScript, cert |-> GoodCert]

\* one environment per step that fails, per handshake script, per certificate case
OpenEnvs ==
    {[GoodEnv EXCEPT !.nonblock = FALSE], [GoodEnv EXCEPT !.init = FALSE],
     [GoodEnv EXCEPT !.priority = FALSE], [GoodEnv EXCEPT !.cred = FALSE],
     [GoodEnv EXCEPT !.set_data = FALSE]}
    \cup { [GoodEnv EXCEPT !.hs = h] : h \in HsScripts }
    \cup { [GoodEnv EXCEPT !.cert = c] : c \in CertCases }

ClientEnvs == OpenEnvs \cup {[GoodEnv EXCEPT !.socket = FALSE], [GoodEnv EXCEPT !.connect = FALSE]}

\* the failure exit after the session exists: gnutls_deinit, close, return
Unwind(w, r) == Ret(sys_close(gnutls_deinit(w, w.s.session), w.s.sd), r)

\* the steps from the transport pointer on, without the verification of the peer
OpenHandshakeUnverified(w, common_name, env) ==
    LET w1 == Log([w EXCEPT !.eng.transport = w.s.sd], "transport_set_ptr", w.s.sd)
        w2 == tls6sock_handshake(w1, env.hs)
    IN
    IF w2.rv # SOCK_OK THEN Unwind(w2, w2.rv) ELSE Ret(w2, SOCK_OK)

\* the steps from the transport pointer on
OpenHandshake(w, common_name, env) ==
    LET w1 == Log([w EXCEPT !.eng.transport = w.s.sd], "transport_set_ptr", w.s.sd)
        w2 == tls6sock_handshake(w1, env.hs)
    IN
    IF w2.rv # SOCK_OK THEN Unwind(w2, w2.rv)
    ELSE IF w2.s.type = TLS6SOCK_CLIENT
    THEN LET w3 == tls6sock_verify_peer_cert(w2, common_name, env.cert) IN
         IF w3.rv # SOCK_OK THEN Unwind(w3, w3.rv) ELSE Ret(w3, SOCK_OK)
    ELSE Ret(w2, SOCK_OK)

\* the session cache step that goes on to the handshake when a found ticket cannot be applied
OpenCacheIgnoresFailure(w, common_name, env) ==
    IF w.s.type = TLS6SOCK_CLIENT
    THEN LET w1 == tls_client_cache_get(w, tls6sock_get_addr_string_(w.s.sin.addr)) IN
         IF w1.rv # 0
         THEN LET w2 == Log(w1, "session_set_data", w1.rv) IN
              IF ~env.set_data THEN OpenHandshake(w2, common_name, env)
              ELSE OpenHandshake([w2 EXCEPT !.eng.seed = w1.rv], common_name, env)
         ELSE OpenHandshake(w1, common_name, env)
    ELSE IF w.s.type = TLS6SOCK_SERVER
    THEN OpenHandshake(Log([w EXCEPT !.eng.db = TRUE], "db_set_functions", w.s.session),
                       common_name, env)
    ELSE OpenHandshake(w, common_name, env)

\* the session cache step
OpenCache(w, common_name, env) ==
    IF w.s.type = TLS6SOCK_CLIENT
    THEN LET w1 == tls_client_cache_get(w, tls6sock_get_addr_string_(w.s.sin.addr)) IN
         IF w1.rv # 0
         THEN LET w2 == Log(w1, "session_set_data", w1.rv) IN
              IF ~env.set_data THEN Unwind(w2, SOCK_TLS_CACHE_ERROR)
              ELSE OpenHandshake([w2 EXCEPT !.eng.seed = w1.rv], common_name, env)
         ELSE OpenHandshake(w1, common_name, env)
    ELSE IF w.s.type = TLS6SOCK_SERVER
    THEN OpenHandshake(Log([w EXCEPT !.eng.db = TRUE], "db_set_functions", w.s.session),
                       common_name, env)
    ELSE OpenHandshake(w, common_name, env)

tls6sock_open_(w, common_name, timeout, env) ==
    LET w0 == Log([w EXCEPT !.s.timeout = timeout], "set_non_blocking", w.s.sd) IN
    IF ~env.nonblock THEN Ret(sys_close(w0, w0.s.sd), SOCK_TLS_CONFIG_ERROR)
    ELSE LET w1 == gnutls_init(w0, env.init) IN
    IF w1.rv # GNUTLS_E_SUCCESS THEN Ret(sys_close(w1, w1.s.sd), SOCK_TLS_CONFIG_ERROR)
    ELSE LET w2 == Log(w1, "priority_set", w1.s.session) IN
    IF ~env.priority THEN Unwind(w2, SOCK_TLS_CONFIG_ERROR)
    ELSE LET w3 == Log(w2, "credentials_set", w2.s.session) IN
    IF ~env.cred THEN Unwind(w3, SOCK_TLS_CONFIG_ERROR)
    ELSE OpenCache(w3, common_name, env)

(***************************************************************************)
(* tls6sock_open_from_sockaddr_in6                                         *)
(***************************************************************************)
\* construction that tests the timeout after it has opened the socket
OpenSocketFirst(w, common_name, timeout, sin, env) ==
    LET w1 == sys_socket([w EXCEPT !.s = [ZeroSock EXCEPT !.type = TLS6SOCK_CLIENT]], env.socket)
        w2 == [w1 EXCEPT !.s.sd = w1.rv]
    IN
    IF timeout < 0 THEN Ret(w2, SOCK_ARG_ERROR)
    ELSE IF w2.s.sd = -1 THEN Ret(w2, SOCK_OPEN_ERROR)
    ELSE LET w3 == Log([w2 EXCEPT !.s.sin = sin], "connect", w2.s.sd) IN
         IF ~env.connect THEN Ret(sys_close(w3, w3.s.sd), SOCK_CONNECT_ERROR)
         ELSE tls6sock_open_(w3, common_name, timeout, env)

tls6sock_open_from_sockaddr_in6(w, common_name, timeout, sin, env) ==
    LET w0 == [w EXCEPT !.s = ZeroSock] IN
    IF timeout < 0 THEN Ret(w0, SOCK_ARG_ERROR)
    ELSE LET w1 == sys_socket([w0 EXCEPT !.s.type = TLS6SOCK_CLIENT], env.socket)
             w2 == [w1 EXCEPT !.s.sd = w1.rv]
         IN
         IF w2.s.sd = -1 THEN Ret(w2, SOCK_OPEN_ERROR)
         ELSE LET w3 == Log([w2 EXCEPT !.s.sin = sin], "connect", w2.s.sd) IN
              IF ~env.connect THEN Ret(sys_close(w3, w3.s.sd), SOCK_CONNECT_ERROR)
              ELSE tls6sock_open_(w3, common_name, timeout, env)

(***************************************************************************)
(* tls6sock_open: resolve, then try the candidates in list order           *)
(***************************************************************************)
AF_INET6 == "AF_INET6"
AF_INET == "AF_INET"
SOCK_STREAM == "SOCK_STREAM"
SOCK_DGRAM == "SOCK_DGRAM"

\* a resolved candidate; sin is what its ai_addr reads as when cast to sockaddr_in6
Candidates == [family : {AF_INET6, AF_INET}, socktype : {SOCK_STREAM}, sin : Sins]
                \cup [family : {AF_INET6}, socktype : {SOCK_DGRAM}, sin : Sins]

RECURSIVE SeqsUpTo(_, _)
SeqsUpTo(S, n) ==
    IF n = 0 THEN {<<>>}
    ELSE SeqsUpTo(S, n - 1) \cup { Append(q, x) : q \in { r \in SeqsUpTo(S, n - 1) : Len(r) = n - 1 }, x \in S }

\* the environments of the attempts made by one tls6sock_open call
HostEnvs ==
    {GoodEnv, [GoodEnv EXCEPT !.connect = FALSE], [GoodEnv EXCEPT !.hs = <<GNUTLS_E_AGAIN, SEL_TIMEOUT>>]}

\* the loop that gives up after its first attempt
RECURSIVE OpenLoopFirstOnly(_, _, _, _, _, _, _)
OpenLoopFirstOnly(w, common_name, timeout, list, envs, node, ret) ==
    IF node > Len(list) THEN Ret(Log(w, "freeaddrinfo", 0), ret)
    ELSE IF list[1].family = AF_INET6 /\ list[1].socktype = SOCK_STREAM
    THEN LET w1 == tls6sock_open_from_sockaddr_in6(Log(w, "attempt", node), common_name, timeout,
                                                   list[node].sin, envs[node]) IN
         Ret(Log(w1, "freeaddrinfo", 0), w1.rv)
    ELSE OpenLoopFirstOnly(w, common_name, timeout, list, envs, node + 1, ret)

\* "attempt" marks the call of tls6sock_open_from_sockaddr_in6 on the node-th candidate
RECURSIVE OpenLoop(_, _, _, _, _, _, _)
OpenLoop(w, common_name, timeout, list, envs, node, ret) ==
    IF node > Len(list) THEN Ret(Log(w, "freeaddrinfo", 0), ret)
    ELSE IF list[1].family = AF_INET6 /\ list[1].socktype = SOCK_STREAM
    THEN LET w1 == tls6sock_open_from_sockaddr_in6(Log(w, "attempt", node), common_name, timeout,
                                                   list[node].sin, envs[node]) IN
         IF w1.rv = SOCK_OK \/ w1.rv # SOCK_CONNECT_ERROR
         THEN Ret(Log(w1, "freeaddrinfo", 0), w1.rv)
         ELSE OpenLoop(w1, common_name, timeout, list, envs, node + 1, w1.rv)
    ELSE OpenLoop(w, common_name, timeout, list, envs, node + 1, ret)

\* resolved: getaddrinfo succeeded, with the candidates of list
tls6sock_open(w, common_name, timeout, resolved, list, envs) ==
    LET w0 == [w EXCEPT !.s = ZeroSock] IN
    IF timeout < 0 THEN Ret(w0, SOCK_ARG_ERROR)
    ELSE LET w1 == Log(w0, "getaddrinfo", 0) IN
         IF ~resolved THEN Ret(w1, SOCK_ADDR_ERROR)
         ELSE OpenLoop(w1, common_name, timeout, list, envs, 1, SOCK_CONNECT_ERROR)

(***************************************************************************)
(* tls6sock_close.  env.snap is the datum gnutls_session_get_data2 leaves  *)
(* (0: none), env.bye the outcomes of gnutls_bye and select.               *)
(***************************************************************************)
ByeFinals ==
    { <<GNUTLS_E_SUCCESS>>, <<GNUTLS_E_INTERRUPTED>>, <<GNUTLS_E_OTHER>>,
      <<GNUTLS_E_AGAIN, SEL_TIMEOUT>>, <<GNUTLS_E_AGAIN, SEL_EINTR>>, <<GNUTLS_E_AGAIN, SEL_FAIL>> }

ByeScripts == { Retries(n) \o f : n \in 0 .. MaxRetry, f \in ByeFinals }

CloseEnvs == [snap : 0 .. MaxTicket, bye : ByeScripts]

\* the close-notify loop; rv is the success flag
RECURSIVE ByeLoop(_, _)
ByeLoop(w, script) ==
    LET ret == IF script = <<>> THEN GNUTLS_E_AGAIN ELSE Head(script)
        w1 == Log(w, "gnutls_bye", Code(ret))
    IN
    IF ret = GNUTLS_E_SUCCESS THEN Ret(w1, 1)
    ELSE IF ret = GNUTLS_E_INTERRUPTED THEN Ret(w1, 0)
    ELSE IF ret # GNUTLS_E_AGAIN THEN Ret(w1, 0)
    ELSE LET sel == IF Len(script) < 2 THEN SEL_TIMEOUT ELSE script[2]
             w2 == Log(w1, "select_read", Code(sel))
         IN
         IF sel # SEL_READY THEN Ret(w2, 0) ELSE ByeLoop(w2, Tail(Tail(script)))

\* the cache step with the success test left out
CloseCacheAlways(w, datum, success) ==
    IF w.s.type = TLS6SOCK_CLIENT /\ datum > 0
    THEN Log(tls_client_cache_set(w, tls6sock_get_addr_string_(w.s.sin.addr), datum), "gnutls_free", datum)
    ELSE w

\* the cache step after the loop
CloseCache(w, datum, success) ==
    IF w.s.type = TLS6SOCK_CLIENT /\ datum > 0
    THEN Log(IF success = 1
             THEN tls_client_cache_set(w, tls6sock_get_addr_string_(w.s.sin.addr), datum)
             ELSE w, "gnutls_free", datum)
    ELSE w

\* a close that gives up when the close-notify exchange did not succeed
CloseOnlyAfterSuccess(w, env) ==
    LET datum == IF w.s.type = TLS6SOCK_CLIENT THEN env.snap ELSE 0
        w0 == IF w.s.type = TLS6SOCK_CLIENT THEN Log(w, "session_get_data", datum) ELSE w
        w1 == ByeLoop(w0, env.bye)
        w2 == CloseCache(w1, datum, w1.rv)
        w3 == sys_close(gnutls_deinit(Log(w2, "sleep", 1), w2.s.session), w2.s.sd)
    IN IF w1.rv = 1 THEN Ret(Log([w3 EXCEPT !.s = ZeroSock], "memset", 0), "void") ELSE Ret(w2, "void")

tls6sock_close(w, env) ==
    LET datum == IF w.s.type = TLS6SOCK_CLIENT THEN env.snap ELSE 0
        w0 == IF w.s.type = TLS6SOCK_CLIENT THEN Log(w, "session_get_data", datum) ELSE w
        w1 == ByeLoop(w0, env.bye)
        w2 == CloseCache(w1, datum, w1.rv)
        w3 == sys_close(gnutls_deinit(Log(w2, "sleep", 1), w2.s.session), w2.s.sd)
    IN Ret(Log([w3 EXCEPT !.s = ZeroSock], "memset", 0), "void")

(***************************************************************************)
(* tls6sock_rehandshake                                                    *)
(***************************************************************************)
RehsEnvs == [rehs : BOOLEAN, hs : HsScripts, alert : Alerts]

\* rehandshake without the test of the role
RehandshakeAnyRole(w, env) ==
    LET w1 == Log(w, "gnutls_rehandshake", w.s.session) IN
    IF env.rehs
    THEN LET w2 == tls6sock_handshake(w1, env.hs) IN
         IF w2.rv = SOCK_OK THEN Ret(w2, SOCK_OK) ELSE Ret(w2, SOCK_TLS_HANDSHAKE_ERROR)
    ELSE Ret(w1, SOCK_TLS_HANDSHAKE_ERROR)

\* rehandshake that takes every warning alert for a refusal
RehandshakeAnyAlert(w, env) ==
    IF w.s.type = TLS6SOCK_SERVER
    THEN LET w1 == Log(w, "gnutls_rehandshake", w.s.session) IN
         IF env.rehs
         THEN LET w2 == tls6sock_handshake(w1, env.hs) IN
              IF w2.rv = SOCK_OK THEN Ret(w2, SOCK_OK)
              ELSE IF w2.rv = SOCK_INTR THEN Ret(w2, SOCK_INTR)
              ELSE IF w2.rv = SOCK_TLS_WARNING_ALERT
                   THEN Ret(Log(w2, "gnutls_alert_get", Code(env.alert)), SOCK_TLS_REHANDSHAKE_REFUSED_ERROR)
              ELSE Ret(w2, SOCK_TLS_HANDSHAKE_ERROR)
         ELSE Ret(w1, SOCK_TLS_HANDSHAKE_ERROR)
    ELSE Ret(w, SOCK_TLS_HANDSHAKE_ERROR)

tls6sock_rehandshake(w, env) ==
    IF w.s.type = TLS6SOCK_SERVER
    THEN LET w1 == Log(w, "gnutls_rehandshake", w.s.session) IN
         IF env.rehs
         THEN LET w2 == tls6sock_handshake(w1, env.hs) IN
              IF w2.rv = SOCK_OK THEN Ret(w2, SOCK_OK)
              ELSE IF w2.rv = SOCK_INTR THEN Ret(w2, SOCK_INTR)
              ELSE IF w2.rv = SOCK_TLS_WARNING_ALERT
                   THEN LET w3 == Log(w2, "gnutls_alert_get", Code(env.alert)) IN
                        IF env.alert = GNUTLS_A_NO_RENEGOTIATION
                        THEN Ret(w3, SOCK_TLS_REHANDSHAKE_REFUSED_ERROR)
                        ELSE Ret(w3, SOCK_TLS_HANDSHAKE_ERROR)
              ELSE Ret(w2, SOCK_TLS_HANDSHAKE_ERROR)
         ELSE Ret(w1, SOCK_TLS_HANDSHAKE_ERROR)
    ELSE Ret(w, SOCK_TLS_HANDSHAKE_ERROR)

(***************************************************************************)
(* tls6ssock_open, tls6ssock_close, tls6ssock_accept                       *)
(***************************************************************************)
ListenFails == {"none", "socket", "setsockopt", "bind", "listen", "nonblock"}

tls6ssock_open(w, port, timeout, fail) ==
    LET w0 == [w EXCEPT !.ss = ZeroSSock] IN
    IF timeout < 0 THEN Ret(w0, SOCK_ARG_ERROR)
    ELSE LET w1 == sys_socket(w0, fail # "socket")
             w2 == [w1 EXCEPT !.ss.sd = w1.rv]
         IN
         IF w2.ss.sd = -1 THEN Ret(w2, SOCK_OPEN_ERROR)
         ELSE LET w3 == Log(w2, "setsockopt", w2.ss.sd) IN
         IF fail = "setsockopt" THEN Ret(sys_close(w3, w3.ss.sd), SOCK_CONFIG_ERROR)
         ELSE LET w4 == Log([w3 EXCEPT !.ss.port = port], "bind", w3.ss.sd) IN
         IF fail = "bind" THEN Ret(sys_close(w4, w4.ss.sd), SOCK_BIND_ERROR)
         ELSE LET w5 == Log(w4, "listen", w4.ss.sd) IN
         IF fail = "listen" THEN Ret(sys_close(w5, w5.ss.sd), SOCK_LISTEN_ERROR)
         ELSE LET w6 == Log([w5 EXCEPT !.ss.timeout = timeout], "set_non_blocking", w5.ss.sd) IN
         IF fail = "nonblock" THEN Ret(sys_close(w6, w6.ss.sd), SOCK_CONFIG_ERROR)
         ELSE Ret(w6, SOCK_OK)

tls6ssock_close(w) == Ret([sys_close(w, w.ss.sd) EXCEPT !.ss = ZeroSSock], "void")

\* outcomes of accept(): a descriptor, or -1 with errno EINTR, EAGAIN or another
ACC_CONN == "ACC_CONN"
ACC_EINTR == "ACC_EINTR"
ACC_EAGAIN == "ACC_EAGAIN"
ACC_ERR == "ACC_ERR"

\* accept(): the lowest free descriptor for a pending connection from peer
sys_accept(w, outcome, peer) ==
    LET free == Fds \ w.fds IN
    IF outcome = ACC_CONN /\ free # {}
    THEN Log([w EXCEPT !.fds = @ \cup {Min(free)}, !.s.sd = Min(free), !.s.sin = peer,
                       !.rv = ACC_CONN], "accept", Min(free))
    ELSE Log([w EXCEPT !.s.sd = -1, !.rv = IF outcome = ACC_CONN THEN ACC_ERR ELSE outcome],
             "accept", -1)

AccRetries == { <<ACC_EAGAIN, SEL_READY>>, <<ACC_CONN, SEL_READY>> }

AccFinals ==
    { <<ACC_EINTR>>, <<ACC_ERR>>, <<ACC_EAGAIN, SEL_TIMEOUT>>, <<ACC_EAGAIN, SEL_EINTR>>,
      <<ACC_EAGAIN, SEL_FAIL>>, <<ACC_CONN, SEL_TIMEOUT>>, <<ACC_CONN, SEL_EINTR>>,
      <<ACC_CONN, SEL_FAIL>> }

RECURSIVE Concat(_)
Concat(q) == IF q = <<>> THEN <<>> ELSE Head(q) \o Concat(Tail(q))

AccScripts == { Concat(r) \o f : r \in SeqsUpTo(AccRetries, MaxRetry), f \in AccFinals }

ServerEnvs ==
    {[GoodEnv EXCEPT !.nonblock = FALSE], [GoodEnv EXCEPT !.init = FALSE],
     [GoodEnv EXCEPT !.priority = FALSE], [GoodEnv EXCEPT !.cred = FALSE]}
    \cup { [GoodEnv EXCEPT !.hs = h] : h \in HsFinals \cup {Retries(1) \o HsOkScript} }

RECURSIVE AcceptLoop(_, _, _, _)
AcceptLoop(w, script, peer, env) ==
    LET w1 == sys_accept(w, IF script = <<>> THEN ACC_EAGAIN ELSE Head(script), peer) IN
    IF w1.s.sd > 0
    THEN tls6sock_open_([w1 EXCEPT !.s.type = TLS6SOCK_SERVER], NoName, w1.ss.timeout, env)
    ELSE IF w1.s.sd = -1 /\ w1.rv = ACC_EINTR THEN Ret(w1, SOCK_INTR)
    ELSE IF w1.s.sd = -1 /\ w1.rv # ACC_EAGAIN THEN Ret(w1, SOCK_ACCEPT_ERROR)
    ELSE LET sel == IF Len(script) < 2 THEN SEL_TIMEOUT ELSE script[2]
             w2 == Log(w1, "select_listener", Code(sel))
         IN
         IF sel = SEL_TIMEOUT THEN Ret(w2, SOCK_TIMEOUT)
         ELSE IF sel = SEL_EINTR THEN Ret(w2, SOCK_INTR)
         ELSE IF sel = SEL_FAIL THEN Ret(w2, SOCK_ACCEPT_ERROR)
         ELSE AcceptLoop(w2, Tail(Tail(script)), peer, env)

tls6ssock_accept(w, script, peer, env) == AcceptLoop([w EXCEPT !.s = ZeroSock], script, peer, env)

(***************************************************************************)
(* The receive direction.  wire holds what has arrived on the socket and   *)
(* the engine has not consumed, flight what the peer has sent and has not  *)
(* arrived yet.  w.tape holds the outcomes the call has still to draw: the *)
(* sizes of the records, what a receive on an empty socket reports, and    *)
(* how a wait on an empty socket ends.                                     *)
(***************************************************************************)
Byte(v) == <<"B", v>>
HELLO_REQ == <<"HELLO_REQ", 0>>
EOF == <<"EOF", 0>>
Bytes == {0, 1}
Items == { Byte(v) : v \in Bytes } \cup {HELLO_REQ, EOF}

NoTape == [frags |-> <<>>, idle |-> <<>>, sel |-> <<>>, hs |-> HsOkScript]

RECURSIVE LeadingBytes(_)
LeadingBytes(q) == IF q = <<>> \/ Head(q)[1] # "B" THEN 0 ELSE 1 + LeadingBytes(Tail(q))

LeadingBytesTotal(q) == Cardinality({ i \in 1 .. Len(q) : q[i][1] = "B" })

\* the bytes of a sequence of items, in order
RECURSIVE BytesOf(_)
BytesOf(q) ==
    IF q = <<>> THEN <<>>
    ELSE (IF Head(q)[1] = "B" THEN <<Head(q)[2]>> ELSE <<>>) \o BytesOf(Tail(q))

\* memcpy of data to buf + off
Store(buf, off, data) ==
    [i \in 1 .. Len(buf) |-> IF i > off /\ i <= off + Len(data) THEN data[i - off] ELSE buf[i]]

\* gnutls_record_recv(session, buf + off, len)
gnutls_record_recv(w, off, len) ==
    IF w.wire = <<>>
    THEN LET idle == IF w.tape.idle = <<>> THEN GNUTLS_E_AGAIN ELSE Head(w.tape.idle) IN
         Log([w EXCEPT !.tape.idle = IF @ = <<>> THEN @ ELSE Tail(@), !.rv = Code(idle)],
             "gnutls_record_recv", Code(idle))
    ELSE IF Head(w.wire) = HELLO_REQ
    THEN Log([w EXCEPT !.wire = Tail(@), !.rv = Code(GNUTLS_E_REHANDSHAKE)],
             "gnutls_record_recv", Code(GNUTLS_E_REHANDSHAKE))
    ELSE IF Head(w.wire) = EOF
    THEN Log(Ret(w, 0), "gnutls_record_recv", 0)
    ELSE LET frag == IF w.tape.frags = <<>> THEN 1 ELSE Head(w.tape.frags)
             n == Min({len, frag, LeadingBytes(w.wire)})
             data == [i \in 1 .. n |-> w.wire[i][2]]
         IN Log([w EXCEPT !.wire = SubSeq(@, n + 1, Len(@)), !.buf = Store(@, off, data),
                          !.tape.frags = IF @ = <<>> THEN @ ELSE Tail(@), !.rv = n],
                "gnutls_record_recv", n)

\* select() for reading on s->sd: ready at once when something has arrived
sys_select_read(w) ==
    LET tok == IF w.tape.sel = <<>> THEN SEL_TIMEOUT ELSE Head(w.tape.sel)
        w1 == [w EXCEPT !.tape.sel = IF @ = <<>> THEN @ ELSE Tail(@)]
    IN
    IF w.wire # <<>> THEN Log(Ret(w, SEL_READY), "select_read", Code(SEL_READY))
    ELSE IF tok = SEL_ARRIVE /\ w.flight # <<>>
    THEN Log([w1 EXCEPT !.wire = w.flight, !.flight = <<>>, !.rv = SEL_READY],
             "select_read", Code(SEL_READY))
    ELSE IF tok \in {SEL_ARRIVE, SEL_READY} THEN Log(Ret(w1, SEL_TIMEOUT), "select_read", Code(SEL_TIMEOUT))
    ELSE Log(Ret(w1, tok), "select_read", Code(tok))

(***************************************************************************)
(* tls6sock_read(s, buf + off, len) and tls6sock_read_full                 *)
(***************************************************************************)
\* a read that takes a rehandshake request for a receive error
RECURSIVE ReadLoopNoRehandshake(_, _, _)
ReadLoopNoRehandshake(w, off, len) ==
    LET w1 == gnutls_record_recv(w, off, len)
        num == w1.rv
    IN
    IF num > 0 THEN Ret(w1, num)
    ELSE IF num = 0 THEN Ret(w1, 0)
    ELSE IF num = Code(GNUTLS_E_INTERRUPTED) THEN Ret(w1, Code(SOCK_INTR))
    ELSE IF num # Code(GNUTLS_E_AGAIN) THEN Ret(w1, Code(SOCK_READ_ERROR))
    ELSE LET w3 == sys_select_read(w1) IN
         IF w3.rv = SEL_TIMEOUT THEN Ret(w3, Code(SOCK_TIMEOUT))
         ELSE IF w3.rv = SEL_EINTR THEN Ret(w3, Code(SOCK_INTR))
         ELSE IF w3.rv = SEL_FAIL THEN Ret(w3, Code(SOCK_READ_ERROR))
         ELSE ReadLoopNoRehandshake(w3, off, len)

\* a read that reports a failed rehandshake as a read error
RECURSIVE ReadLoopHandshakeAsReadError(_, _, _)
ReadLoopHandshakeAsReadError(w, off, len) ==
    LET w1 == gnutls_record_recv(w, off, len)
        num == w1.rv
    IN
    IF num > 0 THEN Ret(w1, num)
    ELSE IF num = 0 THEN Ret(w1, 0)
    ELSE LET w2 == IF num = Code(GNUTLS_E_REHANDSHAKE) THEN tls6sock_handshake(w1, w1.tape.hs) ELSE w1 IN
         IF num = Code(GNUTLS_E_REHANDSHAKE) /\ w2.rv # SOCK_OK THEN Ret(w2, Code(SOCK_READ_ERROR))
         ELSE IF num # Code(GNUTLS_E_REHANDSHAKE) /\ num = Code(GNUTLS_E_INTERRUPTED)
              THEN Ret(w2, Code(SOCK_INTR))
         ELSE IF num # Code(GNUTLS_E_REHANDSHAKE) /\ num # Code(GNUTLS_E_AGAIN)
              THEN Ret(w2, Code(SOCK_READ_ERROR))
         ELSE LET w3 == sys_select_read(w2) IN
              IF w3.rv = SEL_TIMEOUT THEN Ret(w3, Code(SOCK_TIMEOUT))
              ELSE IF w3.rv = SEL_EINTR THEN Ret(w3, Code(SOCK_INTR))
              ELSE IF w3.rv = SEL_FAIL THEN Ret(w3, Code(SOCK_READ_ERROR))
              ELSE ReadLoopHandshakeAsReadError(w3, off, len)

RECURSIVE ReadLoop(_, _, _)
ReadLoop(w, off, len) ==
    LET w1 == gnutls_record_recv(w, off, len)
        num == w1.rv
    IN
    IF num > 0 THEN Ret(w1, num)
    ELSE IF num = 0 THEN Ret(w1, 0)
    ELSE LET w2 == IF num = Code(GNUTLS_E_REHANDSHAKE) THEN tls6sock_handshake(w1, w1.tape.hs) ELSE w1 IN
         IF num = Code(GNUTLS_E_REHANDSHAKE) /\ w2.rv # SOCK_OK THEN Ret(w2, Code(w2.rv))
         ELSE IF num # Code(GNUTLS_E_REHANDSHAKE) /\ num = Code(GNUTLS_E_INTERRUPTED)
              THEN Ret(w2, Code(SOCK_INTR))
         ELSE IF num # Code(GNUTLS_E_REHANDSHAKE) /\ num # Code(GNUTLS_E_AGAIN)
              THEN Ret(w2, Code(SOCK_READ_ERROR))
         ELSE LET w3 == sys_select_read(w2) IN
              IF w3.rv = SEL_TIMEOUT THEN Ret(w3, Code(SOCK_TIMEOUT))
              ELSE IF w3.rv = SEL_EINTR THEN Ret(w3, Code(SOCK_INTR))
              ELSE IF w3.rv = SEL_FAIL THEN Ret(w3, Code(SOCK_READ_ERROR))
              ELSE ReadLoop(w3, off, len)

tls6sock_read(w, off, len) ==
    LET w1 == ReadLoop(Log(w, "tls6sock_read", len), off, len) IN Log(w1, "tls6sock_read_ret", w1.rv)

RECURSIVE ReadFullLoop(_, _, _)

\* the body of the loop after its tls6sock_read has returned in world w
ReadFullStep(w, len, total_bytes) ==
    IF w.rv <= 0 THEN Ret(w, w.rv) ELSE ReadFullLoop(w, len, total_bytes + w.rv)

ReadFullLoop(w, len, total_bytes) ==
    IF total_bytes < len
    THEN ReadFullStep(tls6sock_read(w, total_bytes, len - total_bytes), len, total_bytes)
    ELSE Ret(w, total_bytes)

\* read_full that returns what its first read returns
ReadFullOnce(w, len) == tls6sock_read(w, 0, len)

tls6sock_read_full(w, len) == ReadFullLoop(w, len, 0)

\* the outcomes a read call may draw
Lens == 1 .. MaxLen
FragSeqs == [1 .. MaxLen - 1 -> Lens]
IdleSeqs == {<<>>, <<GNUTLS_E_INTERRUPTED>>, <<GNUTLS_E_OTHER>>}
SelSeqs ==
    {<<SEL_TIMEOUT>>, <<SEL_EINTR>>, <<SEL_FAIL>>, <<SEL_ARRIVE>>, <<SEL_ARRIVE, SEL_EINTR>>,
     <<SEL_ARRIVE, SEL_FAIL>>}
ReadHs == HsFinals \cup {Retries(1) \o HsOkScript}
Tapes == [frags : FragSeqs, idle : IdleSeqs, sel : SelSeqs, hs : ReadHs]

\* what has arrived serves a call for n bytes without a receive on an empty
\* socket: n bytes lead it, or the end of the stream follows its leading bytes
Served(arrived, n) ==
    LET k == LeadingBytes(arrived) IN
    IF k >= n THEN TRUE ELSE IF k < Len(arrived) THEN arrived[k + 1] = EOF ELSE FALSE

\* the sizes of records that differ for a call for len bytes in at most n receives
\* of data: the i-th is asked for at most len - (i - 1) bytes of those the stream holds
FragsFor(stream, n, len) ==
    { f \in FragSeqs :
        \A i \in 1 .. MaxLen - 1 :
            IF i > n \/ i > LeadingBytesTotal(stream) THEN f[i] = 1 ELSE f[i] <= len - (i - 1) }

\* the tapes that differ in an outcome the call can draw: a handshake runs only on a
\* rehandshake request, and an empty socket is met only when the arrived items do
\* not serve the call
TapesFor(arrived, stream, n, len) ==
    [frags : FragsFor(stream, n, len),
     idle : IF Served(arrived, n) THEN {<<>>} ELSE IdleSeqs,
     sel : IF Served(arrived, n) THEN {<<SEL_TIMEOUT>>} ELSE SelSeqs,
     hs : IF HELLO_REQ \in Range(stream) THEN ReadHs ELSE {HsOkScript}]

(***************************************************************************)
(* The state and the calls                                                 *)
(***************************************************************************)
NoCall == [op |-> "none"]

NoStored == [a \in Addrs |-> [clean |-> FALSE, ticket |-> 0]]

World(tape, buf) ==
    [fds |-> fds, sessions |-> sessions, eng |-> eng, cache |-> cache, s |-> s, ss |-> ss,
     wire |-> wire, flight |-> flight, written |-> written, tape |-> tape, buf |-> buf, ev |-> <<>>, rv |-> 0]

\* the variables a call leaves, from the world it returns
Commit(w) ==
    /\ fds' = w.fds
    /\ sessions' = w.sessions
    /\ eng' = w.eng
    /\ cache' = w.cache
    /\ s' = w.s
    /\ ss' = w.ss
    /\ wire' = w.wire
    /\ flight' = w.flight
    /\ written' = w.written

Init ==
    /\ fds \in {{}, {0}}
    /\ sessions = {}
    /\ eng = NoEng
    /\ cache = EmptyCache
    /\ s = ZeroSock
    /\ ss = ZeroSSock
    /\ up = FALSE
    /\ lup = FALSE
    /\ stored = NoStored
    /\ wire = <<>>
    /\ flight = <<>>
    /\ written = <<>>
    /\ last = NoCall

Idle == last.op = "none"

\* The caller takes the result of the call.  A tls6sock_t or tls6ssock_t whose
\* construction failed is dropped: the caller's next object starts as {0}.
Return ==
    /\ ~Idle
    /\ last' = NoCall
    /\ s' = IF up THEN s ELSE ZeroSock
    /\ ss' = IF lup THEN ss ELSE ZeroSSock
    /\ UNCHANGED <<fds, sessions, eng, cache, up, lup, stored, wire, flight, written>>

Open ==
    /\ Idle /\ ~up
    /\ \E cn \in CommonNames, timeout \in Timeouts, sin \in Sins, env \in ClientEnvs :
         /\ timeout < 0 => (cn = NoName /\ env = GoodEnv)
         /\ (cn # NoName) => (env.hs = HsOkScript /\ env.set_data)
         /\ LET w == tls6sock_open_from_sockaddr_in6(World(NoTape, <<>>), cn, timeout, sin, env) IN
            /\ Commit(w)
            /\ up' = (w.rv = SOCK_OK)
            /\ last' = [op |-> "open_from_sockaddr_in6", timeout |-> timeout, sin |-> sin,
                        set_data |-> env.set_data,
                        before |-> <<fds, sessions, cache>>, ret |-> w.rv, ev |-> w.ev]
    /\ UNCHANGED <<lup, stored>>

OpenHost ==
    /\ Idle /\ ~up
    /\ \E cn \in {"server"}, timeout \in Timeouts, resolved \in BOOLEAN,
          list \in SeqsUpTo(Candidates, MaxCand) \ {<<>>} :
         \E envs \in [1 .. Len(list) -> HostEnvs] :
           /\ (timeout < 0 \/ ~resolved) => (Len(list) = 1 /\ \A i \in 1 .. Len(list) : envs[i] = GoodEnv)
           /\ LET w == tls6sock_open(World(NoTape, <<>>), cn, timeout, resolved, list, envs) IN
              /\ Commit(w)
              /\ up' = (w.rv = SOCK_OK)
              /\ last' = [op |-> "open", timeout |-> timeout, resolved |-> resolved, list |-> list,
                          before |-> <<fds, sessions, cache>>, ret |-> w.rv, ev |-> w.ev]
    /\ UNCHANGED <<lup, stored>>

ListenOpen ==
    /\ Idle /\ ~lup
    /\ \E port \in Ports, timeout \in Timeouts, fail \in ListenFails :
         LET w == tls6ssock_open(World(NoTape, <<>>), port, timeout, fail) IN
         /\ Commit(w)
         /\ lup' = (w.rv = SOCK_OK)
         /\ last' = [op |-> "ssock_open", timeout |-> timeout,
                     before |-> <<fds, sessions, cache>>, ret |-> w.rv, ev |-> w.ev]
    /\ UNCHANGED <<up, stored>>

ListenClose ==
    /\ Idle /\ lup
    /\ LET w == tls6ssock_close(World(NoTape, <<>>)) IN
         /\ Commit(w)
         /\ last' = [op |-> "ssock_close", ret |-> w.rv, ev |-> w.ev]
    /\ lup' = FALSE
    /\ UNCHANGED <<up, stored>>

Accept ==
    /\ Idle /\ lup /\ ~up
    /\ \E script \in AccScripts, peer \in Sins, env \in ServerEnvs :
         LET w == tls6ssock_accept(World(NoTape, <<>>), script, peer, env) IN
         /\ Commit(w)
         /\ up' = (w.rv = SOCK_OK)
         /\ last' = [op |-> "accept", listener |-> ss, before |-> <<fds, sessions, cache>>,
                     ret |-> w.rv, ev |-> w.ev]
    /\ UNCHANGED <<lup, stored>>

\* the latest clean close of a client connection to an address, and the latest
\* snapshot such a close took
NoteClose(w) ==
    IF s.type = TLS6SOCK_CLIENT /\ eng.hs /\ <<"gnutls_bye", Code(GNUTLS_E_SUCCESS)>> \in Range(w.ev)
    THEN [stored EXCEPT ![s.sin.addr] =
            [clean |-> TRUE,
             ticket |-> IF <<"session_get_data", 0>> \in Range(w.ev) THEN @.ticket
                        ELSE w.ev[First(w.ev, "session_get_data")][2]]]
    ELSE stored

Close ==
    /\ Idle /\ up
    /\ \E env \in CloseEnvs :
         LET w == tls6sock_close(World(NoTape, <<>>), env) IN
         /\ Commit(w)
         /\ stored' = NoteClose(w)
         /\ last' = [op |-> "close", type |-> s.type, sin |-> s.sin, sd |-> s.sd,
                     session |-> s.session, cache0 |-> cache, ret |-> w.rv, ev |-> w.ev]
    /\ up' = FALSE
    /\ UNCHANGED lup

Rehandshake ==
    /\ Idle /\ up
    /\ \E env \in RehsEnvs :
         LET w == tls6sock_rehandshake(World(NoTape, <<>>), env) IN
         /\ Commit(w)
         /\ last' = [op |-> "rehandshake", type |-> s.type, env |-> env,
                     before |-> <<s, eng, fds, sessions, cache>>, ret |-> w.rv, ev |-> w.ev]
    /\ UNCHANGED <<up, lup, stored>>

Next == Open \/ OpenHost \/ ListenOpen \/ ListenClose \/ Accept \/ Close \/ Rehandshake \/ Return

Spec == Init /\ [][Next]_vars

(***************************************************************************)
(* The receive direction of an established connection                      *)
(***************************************************************************)
InitIO ==
    /\ fds = {0}
    /\ sessions = {1}
    /\ \E type \in {TLS6SOCK_CLIENT, TLS6SOCK_SERVER} :
         /\ s = [type |-> type, sd |-> 0, sin |-> [addr |-> <<0, 0, 0, 0, 0, 0, 0, 1>>, port |-> 9999],
                 session |-> 1, timeout |-> 30]
         /\ eng = [seed |-> 0, db |-> type = TLS6SOCK_SERVER, transport |-> 0, hs |-> TRUE,
                   verified |-> type = TLS6SOCK_CLIENT]
    /\ cache = EmptyCache
    /\ ss = ZeroSSock
    /\ up = TRUE
    /\ lup = FALSE
    /\ stored = NoStored
    /\ wire = <<>>
    /\ flight = <<>>
    /\ written = <<>>
    /\ last = NoCall

\* the peer sends one more item; nothing follows its close-notify
PeerSend ==
    /\ Idle
    /\ Len(wire) + Len(flight) < MaxWire
    /\ LET sent == wire \o flight IN IF sent = <<>> THEN TRUE ELSE sent[Len(sent)] # EOF
    /\ \E x \in Items : flight' = Append(flight, x)
    /\ UNCHANGED <<fds, sessions, eng, cache, s, ss, up, lup, stored, wire, written, last>>

Read ==
    /\ Idle /\ up
    /\ \E len \in Lens : \E tape \in TapesFor(wire, wire \o flight, 1, len) :
         LET w == tls6sock_read(World(tape, [i \in 1 .. len |-> -1]), 0, len) IN
         /\ Commit(w)
         /\ last' = [op |-> "read", len |-> len, pre |-> wire \o flight, avail |-> wire,
                     hs |-> tape.hs, ret |-> w.rv, ev |-> w.ev, buf |-> w.buf]
    /\ UNCHANGED <<up, lup, stored>>

ReadFull ==
    /\ Idle /\ up
    /\ \E len \in Lens : \E tape \in TapesFor(wire, wire \o flight, len, len) :
         LET w == tls6sock_read_full(World(tape, [i \in 1 .. len |-> -1]), len) IN
         /\ Commit(w)
         /\ last' = [op |-> "read_full", len |-> len, pre |-> wire \o flight, avail |-> wire,
                     ret |-> w.rv, ev |-> w.ev, buf |-> w.buf]
    /\ UNCHANGED <<up, lup, stored>>

NextIO == PeerSend \/ Read \/ ReadFull \/ Return

SpecIO == InitIO /\ [][NextIO]_vars

(***************************************************************************)
(* The send direction: tls6sock_write and tls6sock_write_full.  The tape   *)
(* of a call gives, in turn, the results of gnutls_record_send (a count of *)
(* bytes taken, 0, or the code of an engine error) and of select; written  *)
(* is what the engine has taken from the caller so far.                    *)
(***************************************************************************)
MaxSent == 4        \* bytes the engine takes before the model stops writing

\* gnutls_record_send(session, buf + off, len)
gnutls_record_send(w, off, len) ==
    LET tok == IF w.tape.send = <<>> THEN len ELSE Head(w.tape.send)
        num == IF tok > len THEN len ELSE tok
        w1 == [w EXCEPT !.tape.send = IF @ = <<>> THEN @ ELSE Tail(@), !.rv = num]
    IN
    IF num > 0
    THEN Log([w1 EXCEPT !.written = @ \o SubSeq(w.buf, off + 1, off + num)], "gnutls_record_send", num)
    ELSE Log(w1, "gnutls_record_send", num)

\* select() for writing on s->sd
sys_select_write(w) ==
    LET tok == IF w.tape.sel = <<>> THEN SEL_TIMEOUT ELSE Head(w.tape.sel) IN
    Log([w EXCEPT !.tape.sel = IF @ = <<>> THEN @ ELSE Tail(@), !.rv = tok], "select_write", Code(tok))

\* a write that answers a rehandshake signal with a handshake, as a read does
RECURSIVE WriteLoopRehandshakes(_, _, _)
WriteLoopRehandshakes(w, off, len) ==
    LET w1 == gnutls_record_send(w, off, len)
        num == w1.rv
    IN
    IF num > 0 THEN Ret(w1, num)
    ELSE IF num = 0 THEN Ret(w1, 0)
    ELSE LET w2 == IF num = Code(GNUTLS_E_REHANDSHAKE) THEN tls6sock_handshake(w1, HsOkScript) ELSE w1 IN
         IF num # Code(GNUTLS_E_REHANDSHAKE) /\ num = Code(GNUTLS_E_INTERRUPTED)
         THEN Ret(w2, Code(SOCK_INTR))
         ELSE IF num # Code(GNUTLS_E_REHANDSHAKE) /\ num # Code(GNUTLS_E_AGAIN)
              THEN Ret(w2, Code(SOCK_WRITE_ERROR))
         ELSE LET w3 == sys_select_write(w2) IN
              IF w3.rv = SEL_TIMEOUT THEN Ret(w3, Code(SOCK_TIMEOUT))
              ELSE IF w3.rv = SEL_EINTR THEN Ret(w3, Code(SOCK_INTR))
              ELSE IF w3.rv = SEL_FAIL THEN Ret(w3, Code(SOCK_WRITE_ERROR))
              ELSE WriteLoopRehandshakes(w3, off, len)

RECURSIVE WriteLoop(_, _, _)
WriteLoop(w, off, len) ==
    LET w1 == gnutls_record_send(w, off, len)
        num == w1.rv
    IN
    IF num > 0 THEN Ret(w1, num)
    ELSE IF num = 0 THEN Ret(w1, 0)
    ELSE IF num = Code(GNUTLS_E_INTERRUPTED) THEN Ret(w1, Code(SOCK_INTR))
    ELSE IF num # Code(GNUTLS_E_AGAIN) THEN Ret(w1, Code(SOCK_WRITE_ERROR))
    ELSE LET w2 == sys_select_write(w1) IN
         IF w2.rv = SEL_TIMEOUT THEN Ret(w2, Code(SOCK_TIMEOUT))
         ELSE IF w2.rv = SEL_EINTR THEN Ret(w2, Code(SOCK_INTR))
         ELSE IF w2.rv = SEL_FAIL THEN Ret(w2, Code(SOCK_WRITE_ERROR))
         ELSE WriteLoop(w2, off, len)

\* a write that leaves the connection's timeout run down after its wait expired
WriteRunsDownTimeout(w, off, len) ==
    LET w1 == WriteLoop(Log(w, "tls6sock_write", len), off, len) IN
    Log([w1 EXCEPT !.s.timeout = IF w1.rv = Code(SOCK_TIMEOUT) THEN 0 ELSE @], "tls6sock_write_ret", w1.rv)

tls6sock_write(w, off, len) ==
    LET w1 == WriteLoop(Log(w, "tls6sock_write", len), off, len) IN Log(w1, "tls6sock_write_ret", w1.rv)

RECURSIVE WriteFullLoop(_, _, _)

\* the body of the loop after its tls6sock_write has returned in world w
WriteFullStep(w, len, total_bytes) ==
    IF w.rv <= 0 THEN Ret(w, w.rv) ELSE WriteFullLoop(w, len, total_bytes + w.rv)

WriteFullLoop(w, len, total_bytes) ==
    IF total_bytes < len
    THEN WriteFullStep(tls6sock_write(w, total_bytes, len - total_bytes), len, total_bytes)
    ELSE Ret(w, total_bytes)

\* write_full that returns what its first write returns
WriteFullOnce(w, len) == tls6sock_write(w, 0, len)

tls6sock_write_full(w, len) == WriteFullLoop(w, len, 0)

\* the scripts of one write: would-block rounds, then a result that ends the call
RECURSIVE Repeat(_, _)
Repeat(x, n) == IF n = 0 THEN <<>> ELSE <<x>> \o Repeat(x, n - 1)

SendEnds(len) ==
    (0 .. len) \cup {Code(GNUTLS_E_INTERRUPTED), Code(GNUTLS_E_REHANDSHAKE), Code(GNUTLS_E_OTHER)}

WriteScripts(len) ==
    { [send |-> Repeat(Code(GNUTLS_E_AGAIN), n) \o <<x>>, sel |-> Repeat(SEL_READY, n)] :
        n \in 0 .. MaxRetry, x \in SendEnds(len) }
    \cup
    { [send |-> Repeat(Code(GNUTLS_E_AGAIN), n + 1), sel |-> Repeat(SEL_READY, n) \o <<e>>] :
        n \in 0 .. MaxRetry, e \in {SEL_TIMEOUT, SEL_EINTR, SEL_FAIL} }

\* the scripts of a write_full: after a short count the next write runs on what follows
RECURSIVE WriteFullScripts(_)
WriteFullScripts(len) ==
    UNION { LET k == t.send[Len(t.send)] IN
            IF k > 0 /\ k < len
            THEN { [send |-> t.send \o r.send, sel |-> t.sel \o r.sel] : r \in WriteFullScripts(len - k) }
            ELSE {t} : t \in WriteScripts(len) }

\* the buffer a caller writes: its bytes differ
Payloads(len) == { [i \in 1 .. len |-> i] }

Write ==
    /\ Idle /\ up
    /\ \E len \in Lens :
         /\ Len(written) + len <= MaxSent
         /\ \E buf \in Payloads(len), tape \in WriteScripts(len) :
              LET w == tls6sock_write(World(tape, buf), 0, len) IN
              /\ Commit(w)
              /\ last' = [op |-> "write", len |-> len, buf |-> buf, pre |-> written,
                          ret |-> w.rv, ev |-> w.ev]
    /\ UNCHANGED <<up, lup, stored>>

WriteFull ==
    /\ Idle /\ up
    /\ \E len \in Lens :
         /\ Len(written) + len <= MaxSent
         /\ \E buf \in Payloads(len), tape \in WriteFullScripts(len) :
              LET w == tls6sock_write_full(World(tape, buf), len) IN
              /\ Commit(w)
              /\ last' = [op |-> "write_full", len |-> len, buf |-> buf, pre |-> written,
                          ret |-> w.rv, ev |-> w.ev]
    /\ UNCHANGED <<up, lup, stored>>

NextOut == Write \/ WriteFull \/ Return

SpecOut == InitIO /\ [][NextOut]_vars

(***************************************************************************)
(* A connection in use beside the listener of its process: reads, writes   *)
(* and rehandshakes in any order, then close, and accepts on the listener. *)
(* A server connection has the listener that produced it, a client         *)
(* connection has none.  The peer has sent a rehandshake request and one   *)
(* byte, still in flight.                                                  *)
(***************************************************************************)
InitUse ==
    /\ sessions = {1}
    /\ \E type \in {TLS6SOCK_CLIENT, TLS6SOCK_SERVER} :
         /\ s = [type |-> type, sd |-> 0, sin |-> [addr |-> <<0, 0, 0, 0, 0, 0, 0, 1>>, port |-> 9999],
                 session |-> 1, timeout |-> 30]
         /\ eng = [seed |-> 0, db |-> type = TLS6SOCK_SERVER, transport |-> 0, hs |-> TRUE,
                   verified |-> type = TLS6SOCK_CLIENT]
         /\ lup = (type = TLS6SOCK_SERVER)
         /\ ss = IF type = TLS6SOCK_SERVER THEN [port |-> 9999, sd |-> 1, timeout |-> 30] ELSE ZeroSSock
         /\ fds = IF type = TLS6SOCK_SERVER THEN {0, 1} ELSE {0}
    /\ cache = EmptyCache
    /\ up = TRUE
    /\ stored = NoStored
    /\ wire = <<>>
    /\ flight = <<HELLO_REQ, Byte(1)>>
    /\ written = <<>>
    /\ last = NoCall

NextUse == Read \/ ReadFull \/ Write \/ WriteFull \/ Rehandshake \/ Close \/ Accept \/ Return

SpecUse == InitUse /\ [][NextUse]_vars

(***************************************************************************)
(* The certificate verifier on its own: every combination of what the      *)
(* engine can report about the peer's chain and its leaf certificate.      *)
(***************************************************************************)
AllCerts ==
    [verify : BOOLEAN, status : SUBSET StatusFlags, type : {GNUTLS_CRT_X509, GNUTLS_CRT_OTHER},
     crt_init : BOOLEAN, peers : BOOLEAN, import : BOOLEAN, expiration : TimeStamps,
     activation : TimeStamps, name : CertNames]

\* a client connection whose handshake has just completed, and the inputs of the call
InitVerify ==
    /\ fds = {0}
    /\ sessions = {1}
    /\ s = [type |-> TLS6SOCK_CLIENT, sd |-> 0, sin |-> [addr |-> <<0, 0, 0, 0, 0, 0, 0, 1>>, port |-> 9999],
            session |-> 1, timeout |-> 30]
    /\ eng = [seed |-> 0, db |-> FALSE, transport |-> 0, hs |-> TRUE, verified |-> FALSE]
    /\ cache = EmptyCache
    /\ ss = ZeroSSock
    /\ up = FALSE
    /\ lup = FALSE
    /\ stored = NoStored
    /\ wire = <<>>
    /\ flight = <<>>
    /\ written = <<>>
    /\ \E cn \in CommonNames, cert \in AllCerts : last = [op |-> "verify_input", cn |-> cn, cert |-> cert]

Verify ==
    /\ last.op = "verify_input"
    /\ LET w == tls6sock_verify_peer_cert(World(NoTape, <<>>), last.cn, last.cert) IN
         /\ Commit(w)
         /\ last' = [op |-> "verify", cn |-> last.cn, cert |-> last.cert, ret |-> w.rv, ev |-> w.ev]
    /\ UNCHANGED <<up, lup, stored>>

NextVerify == Verify

SpecVerify == InitVerify /\ [][NextVerify]_vars

(***************************************************************************)
(* The wait loops, step by step, against a peer that never responds: the   *)
(* engine call of a loop reports would-block and the socket never becomes  *)
(* ready, so a select ends only when its timeout has run down or a signal  *)
(* arrives.  last holds the call in progress: its place in the loop (pc),  *)
(* what is left of the timeout given to select (left), and whether a       *)
(* signal has interrupted it (sig).                                        *)
(***************************************************************************)
MaxWait == 2

WaitOps == {"handshake", "read", "write", "accept", "close"}

\* the error a loop returns when select fails with an errno other than EINTR
WaitFailure(op) ==
    IF op = "handshake" THEN SOCK_TLS_HANDSHAKE_ERROR
    ELSE IF op = "read" THEN SOCK_READ_ERROR
    ELSE IF op = "write" THEN SOCK_WRITE_ERROR
    ELSE SOCK_ACCEPT_ERROR

\* where a loop goes after its engine call (accept: after accept()) gave this outcome
AfterEngine(op, out) ==
    IF out = GNUTLS_E_AGAIN THEN [pc |-> "wait", ret |-> "none"]
    ELSE IF op = "close" THEN [pc |-> "release", ret |-> "none"]
    ELSE [pc |-> "done", ret |-> SOCK_INTR]

\* where a loop goes after select ended this way, without the return on expiry
AfterSelectRetry(op, sel) ==
    IF sel = SEL_READY \/ sel = SEL_TIMEOUT THEN [pc |-> "engine", ret |-> "none"]
    ELSE IF op = "close" THEN [pc |-> "release", ret |-> "none"]
    ELSE IF sel = SEL_EINTR THEN [pc |-> "done", ret |-> SOCK_INTR]
    ELSE [pc |-> "done", ret |-> WaitFailure(op)]

\* where a loop goes after select ended this way
AfterSelect(op, sel) ==
    IF sel = SEL_READY THEN [pc |-> "engine", ret |-> "none"]
    ELSE IF op = "close" THEN [pc |-> "release", ret |-> "none"]
    ELSE IF sel = SEL_TIMEOUT THEN [pc |-> "done", ret |-> SOCK_TIMEOUT]
    ELSE IF sel = SEL_EINTR THEN [pc |-> "done", ret |-> SOCK_INTR]
    ELSE [pc |-> "done", ret |-> WaitFailure(op)]

\* an established connection and a listener, with the timeout they were opened with
InitWait ==
    /\ fds = {0, 1}
    /\ sessions = {1}
    /\ \E type \in {TLS6SOCK_CLIENT, TLS6SOCK_SERVER}, timeout \in 0 .. MaxWait :
         /\ s = [type |-> type, sd |-> 0, sin |-> [addr |-> <<0, 0, 0, 0, 0, 0, 0, 1>>, port |-> 9999],
                 session |-> 1, timeout |-> timeout]
         /\ eng = [seed |-> 0, db |-> type = TLS6SOCK_SERVER, transport |-> 0, hs |-> TRUE,
                   verified |-> type = TLS6SOCK_CLIENT]
         /\ ss = [port |-> 9999, sd |-> 1, timeout |-> timeout]
    /\ cache = EmptyCache
    /\ up = TRUE
    /\ lup = TRUE
    /\ stored = NoStored
    /\ wire = <<>>
    /\ flight = <<>>
    /\ written = <<>>
    /\ last = NoCall

InWait == last.op \in WaitOps

\* the call starts: tv.tv_sec = timeout, then the loop's first engine call
WaitCall ==
    /\ Idle
    /\ \E op \in WaitOps :
         /\ IF op = "accept" THEN lup ELSE up
         /\ last' = [op |-> op, pc |-> "engine", ret |-> "none", sig |-> FALSE, waited |-> 0,
                     left |-> IF op = "accept" THEN ss.timeout ELSE s.timeout]
    /\ UNCHANGED <<fds, sessions, eng, cache, s, ss, up, lup, stored, wire, flight, written>>

\* the engine call: would-block, or interrupted by a signal
EngineStep ==
    /\ InWait /\ last.pc = "engine"
    /\ \E out \in {GNUTLS_E_AGAIN, GNUTLS_E_INTERRUPTED} :
         last' = [last EXCEPT !.pc = AfterEngine(last.op, out).pc, !.ret = AfterEngine(last.op, out).ret,
                              !.sig = @ \/ out = GNUTLS_E_INTERRUPTED]
    /\ UNCHANGED <<fds, sessions, eng, cache, s, ss, up, lup, stored, wire, flight, written>>

\* a second passes while select blocks
Tick ==
    /\ InWait /\ last.pc = "wait" /\ last.left > 0
    /\ last' = [last EXCEPT !.left = @ - 1, !.waited = @ + 1]
    /\ UNCHANGED <<fds, sessions, eng, cache, s, ss, up, lup, stored, wire, flight, written>>

\* the timeout has run down: select returns 0
Expire ==
    /\ InWait /\ last.pc = "wait" /\ last.left = 0
    /\ last' = [last EXCEPT !.pc = AfterSelect(last.op, SEL_TIMEOUT).pc,
                            !.ret = AfterSelect(last.op, SEL_TIMEOUT).ret]
    /\ UNCHANGED <<fds, sessions, eng, cache, s, ss, up, lup, stored, wire, flight, written>>

\* a signal arrives while select blocks: select returns -1 with EINTR
Signal ==
    /\ InWait /\ last.pc = "wait"
    /\ last' = [last EXCEPT !.pc = AfterSelect(last.op, SEL_EINTR).pc,
                            !.ret = AfterSelect(last.op, SEL_EINTR).ret, !.sig = TRUE]
    /\ UNCHANGED <<fds, sessions, eng, cache, s, ss, up, lup, stored, wire, flight, written>>

\* tls6sock_close after its loop: nothing to cache, then deinit, close, memset
Release ==
    /\ InWait /\ last.pc = "release"
    /\ LET w0 == World(NoTape, <<>>)
           w1 == CloseCache(w0, 0, 0)
           w2 == sys_close(gnutls_deinit(w1, w1.s.session), w1.s.sd)
       IN /\ Commit([w2 EXCEPT !.s = ZeroSock, !.eng = NoEng])
          /\ last' = [last EXCEPT !.pc = "done", !.ret = "void"]
    /\ up' = FALSE
    /\ UNCHANGED <<lup, stored>>

WaitReturn ==
    /\ InWait /\ last.pc = "done"
    /\ last' = NoCall
    /\ UNCHANGED <<fds, sessions, eng, cache, s, ss, up, lup, stored, wire, flight, written>>

NextWait == WaitCall \/ EngineStep \/ Tick \/ Expire \/ Signal \/ Release \/ WaitReturn

\* the process runs and time passes; a signal need not arrive
SpecWait ==
    InitWait /\ [][NextWait]_vars /\ WF_vars(EngineStep) /\ WF_vars(Tick) /\ WF_vars(Expire)
    /\ WF_vars(Release)

(***************************************************************************)
(* What the event log of a call says                                       *)
(***************************************************************************)
Ev(name, arg) == <<name, arg>> \in Range(last.ev)

\* the datum gnutls_session_get_data2 left at the start of a close (0: none)
Snapshot == IF Has(last.ev, "session_get_data") THEN last.ev[First(last.ev, "session_get_data")][2] ELSE 0

\* the close-notify exchange completed in both directions
ByeSucceeded == Ev("gnutls_bye", Code(GNUTLS_E_SUCCESS))

IsConstruction == last.op \in {"open_from_sockaddr_in6", "open", "accept"}

\* the final outcome of a script: its last engine outcome, or the outcome of its last wait
ScriptEnd(script) == script[Len(script)]

(***************************************************************************)
(* C1: tls6sock_close writes the client session cache only if the          *)
(* connection has the Client role, a non-empty session snapshot was taken  *)
(* before the close-notify exchange and gnutls_bye reported success; in    *)
(* every other case the cache is left as it was.                           *)
(***************************************************************************)
C1_CacheOnlyOnCleanClientClose ==
    last.op = "close" =>
        /\ Has(last.ev, "cache_set") =>
              /\ last.type = TLS6SOCK_CLIENT
              /\ Snapshot > 0
              /\ Before(last.ev, "session_get_data", "gnutls_bye")
              /\ ByeSucceeded
              /\ Before(last.ev, "gnutls_bye", "cache_set")
        /\ ~(last.type = TLS6SOCK_CLIENT /\ Snapshot > 0 /\ ByeSucceeded) =>
              (~Has(last.ev, "cache_set") /\ cache = last.cache0)

C1_Witness ==
    /\ last.op = "close"
    /\ Has(last.ev, "cache_set")
    /\ cache # last.cache0

(***************************************************************************)
(* C2 as stated: after a client connection whose handshake completed was   *)
(* closed with close-notify exchanged in both directions, the next connect *)
(* to the same peer address finds a ticket in the client cache.            *)
(***************************************************************************)
LookupFound == last.ev[First(last.ev, "cache_get")][2]

ClientLookup == last.op = "open_from_sockaddr_in6" /\ Has(last.ev, "cache_get")

C2_CleanCloseLeavesTicket ==
    (ClientLookup /\ stored[last.sin.addr].clean) => LookupFound # 0

(***************************************************************************)
(* C2 amended: when such a close also took a non-empty session snapshot,   *)
(* the next connect to the same peer address that reaches the cache lookup *)
(* finds that very ticket (the key of the store equals the key of the      *)
(* lookup) and applies it to the new session before the handshake starts;  *)
(* the session of an established connection is seeded with it.             *)
(***************************************************************************)
C2_NextConnectFindsTicket ==
    (ClientLookup /\ stored[last.sin.addr].ticket > 0) =>
        /\ LookupFound = stored[last.sin.addr].ticket
        /\ Ev("session_set_data", stored[last.sin.addr].ticket)
        /\ Before(last.ev, "cache_get", "gnutls_handshake")
        /\ Before(last.ev, "session_set_data", "gnutls_handshake")
        /\ up => eng.seed = stored[last.sin.addr].ticket

C2_Witness ==
    /\ ClientLookup
    /\ stored[last.sin.addr].ticket > 0
    /\ Has(last.ev, "gnutls_handshake")
    /\ up

(***************************************************************************)
(* C3: tls6sock_read_full returns exactly len with the buffer holding the  *)
(* first len bytes of the stream, however the stream is cut into records   *)
(* and arrivals; when one of its reads returns 0 or an error before len    *)
(* bytes are collected it returns that value, never a positive count       *)
(* smaller than len.                                                       *)
(***************************************************************************)
\* the values the reads of the call returned, in order
ReadRets == LET ix == { i \in 1 .. Len(last.ev) : last.ev[i][1] = "tls6sock_read_ret" } IN
            { last.ev[i][2] : i \in ix }

LastReadRet ==
    LET ix == { i \in 1 .. Len(last.ev) : last.ev[i][1] = "tls6sock_read_ret" } IN
    last.ev[CHOOSE i \in ix : \A j \in ix : j <= i][2]

C3_ReadFullAllOrNothing ==
    last.op = "read_full" =>
        /\ last.ret > 0 =>
              /\ last.ret = last.len
              /\ last.buf = SubSeq(BytesOf(last.pre), 1, last.len)
              /\ BytesOf(wire \o flight) = SubSeq(BytesOf(last.pre), last.len + 1, Len(BytesOf(last.pre)))
        /\ (\E r \in ReadRets : r <= 0) => (last.ret = LastReadRet /\ last.ret <= 0)
        /\ (\A r \in ReadRets : r > 0) => last.ret = last.len

C3_Witness ==
    /\ last.op = "read_full"
    /\ last.ret = last.len
    /\ Count(last.ev, "tls6sock_read") >= 2
    /\ Ev("gnutls_record_recv", Code(GNUTLS_E_AGAIN))

(***************************************************************************)
(* C4: tls6sock_rehandshake on a Client-role connection returns            *)
(* HandshakeError without any call of the TLS engine, any readiness wait   *)
(* or any change of the connection.                                        *)
(***************************************************************************)
C4_ClientRehandshakeRejected ==
    (last.op = "rehandshake" /\ last.type = TLS6SOCK_CLIENT) =>
        /\ last.ret = SOCK_TLS_HANDSHAKE_ERROR
        /\ last.ev = <<>>
        /\ <<s, eng, fds, sessions, cache>> = last.before

C4_Witness ==
    /\ last.op = "rehandshake"
    /\ last.type = TLS6SOCK_CLIENT
    /\ last.env.rehs
    /\ ScriptEnd(last.env.hs) = GNUTLS_E_SUCCESS

(***************************************************************************)
(* C5: a server-initiated tls6sock_rehandshake returns RehandshakeRefused  *)
(* exactly when the handshake procedure ended with WarningAlert and the    *)
(* alert is "no renegotiation"; a WarningAlert with any other alert is     *)
(* HandshakeError, and a successful handshake is OK.                       *)
(***************************************************************************)
ServerRehandshake == last.op = "rehandshake" /\ last.type = TLS6SOCK_SERVER

\* the handshake procedure ran and ended with this engine outcome
HandshakeEnded(outcome) == last.env.rehs /\ ScriptEnd(last.env.hs) = outcome

C5_RefusedIffNoRenegotiation ==
    ServerRehandshake =>
        /\ (last.ret = SOCK_TLS_REHANDSHAKE_REFUSED_ERROR) <=>
              (HandshakeEnded(GNUTLS_E_WARNING_ALERT_RECEIVED) /\ last.env.alert = GNUTLS_A_NO_RENEGOTIATION)
        /\ (HandshakeEnded(GNUTLS_E_WARNING_ALERT_RECEIVED) /\ last.env.alert # GNUTLS_A_NO_RENEGOTIATION)
              => last.ret = SOCK_TLS_HANDSHAKE_ERROR
        /\ HandshakeEnded(GNUTLS_E_SUCCESS) => last.ret = SOCK_OK

C5_Witness ==
    /\ ServerRehandshake
    /\ last.ret = SOCK_TLS_REHANDSHAKE_REFUSED_ERROR
    /\ Ev("gnutls_alert_get", Code(GNUTLS_A_NO_RENEGOTIATION))

(***************************************************************************)
(* C6: a server-initiated rehandshake whose readiness wait expires returns *)
(* TimeoutError, and one whose wait is interrupted by a signal returns     *)
(* Interrupted.                                                            *)
(***************************************************************************)
C6_RehandshakeKeepsFailureKind ==
    ServerRehandshake =>
        /\ HandshakeEnded(SEL_TIMEOUT) => last.ret = SOCK_TIMEOUT
        /\ HandshakeEnded(SEL_EINTR) => last.ret = SOCK_INTR

(***************************************************************************)
(* C7: on every failing path of connection construction, every socket      *)
(* descriptor opened or accepted and every TLS session initialised during  *)
(* the call has been released exactly once when the call returns.          *)
(***************************************************************************)
FailedConstruction == IsConstruction /\ last.ret # SOCK_OK

C7_FailingConstructionReleasesAll ==
    FailedConstruction =>
        /\ \A d \in Fds :
              CountArg(last.ev, "socket", d) + CountArg(last.ev, "accept", d) = CountArg(last.ev, "close", d)
        /\ \A h \in 1 .. MaxSess : CountArg(last.ev, "gnutls_init", h) = CountArg(last.ev, "gnutls_deinit", h)
        /\ ~Has(last.ev, "close_EBADF")
        /\ ~Has(last.ev, "gnutls_deinit_BAD")
        /\ fds = last.before[1]
        /\ sessions = last.before[2]

(***************************************************************************)
(* C8: after a construction call returns, the Connection is fully          *)
(* established (socket open, session initialised, handshake completed,     *)
(* peer verified where the role verifies its peer) when the result is OK,  *)
(* and fully torn down (socket closed, session released, Connection memory *)
(* zeroed) when the result is an error.                                    *)
(***************************************************************************)
C8_EstablishedOrTornDown ==
    IsConstruction =>
        IF last.ret = SOCK_OK
        THEN /\ s.sd \in fds
             /\ s.session \in sessions
             /\ eng.hs
             /\ eng.transport = s.sd
             /\ s.type = TLS6SOCK_CLIENT => eng.verified
        ELSE /\ fds = last.before[1]
             /\ sessions = last.before[2]
             /\ s = ZeroSock

(***************************************************************************)
(* C9: tls6sock_open_from_sockaddr_in6, tls6sock_open and tls6ssock_open   *)
(* called with timeout < 0 return ArgumentError before any socket is       *)
(* created, any address is resolved, any TLS session is initialised or any *)
(* cache is consulted.                                                     *)
(***************************************************************************)
NegativeTimeoutCall ==
    /\ last.op \in {"open_from_sockaddr_in6", "open", "ssock_open"}
    /\ last.timeout < 0

C9_NegativeTimeoutTouchesNothing ==
    NegativeTimeoutCall =>
        /\ last.ret = SOCK_ARG_ERROR
        /\ last.ev = <<>>
        /\ <<fds, sessions, cache>> = last.before

C9_Witness ==
    /\ NegativeTimeoutCall
    /\ last.op = "open_from_sockaddr_in6"
    /\ last.ret = SOCK_ARG_ERROR
    /\ fds = {}

(***************************************************************************)
(* C10: when a receive attempt inside tls6sock_read reports a peer         *)
(* rehandshake request, the read runs the handshake procedure to           *)
(* completion before any further receive attempt and then repeats the      *)
(* receive attempt; when the handshake succeeds and the data the peer sent *)
(* after the request has arrived, the read returns that data, and no byte  *)
(* of the stream is lost or duplicated.                                    *)
(***************************************************************************)
RehandshakeRequest == <<"gnutls_record_recv", Code(GNUTLS_E_REHANDSHAKE)>>

\* the stream starts with rehandshake requests, then a byte, all of them arrived
DataAfterRequestArrived ==
    \E k \in 1 .. Len(last.avail) - 1 :
        /\ \A i \in 1 .. k : last.avail[i] = HELLO_REQ
        /\ last.avail[k + 1][1] = "B"

C10_ReadRidesOutRehandshake ==
    (last.op = "read" /\ RehandshakeRequest \in Range(last.ev)) =>
        /\ \A i \in 1 .. Len(last.ev) : last.ev[i] = RehandshakeRequest =>
              /\ i < Len(last.ev)
              /\ last.ev[i + 1][1] = "gnutls_handshake"
              /\ \A j \in i + 1 .. Len(last.ev) : last.ev[j][1] = "gnutls_record_recv" =>
                    \E k \in i + 1 .. j - 1 : last.ev[k] = <<"gnutls_handshake", Code(GNUTLS_E_SUCCESS)>>
        /\ (DataAfterRequestArrived /\ ScriptEnd(last.hs) = GNUTLS_E_SUCCESS) => last.ret > 0
        /\ last.ret > 0 =>
              /\ last.ret <= last.len
              /\ SubSeq(last.buf, 1, last.ret) = SubSeq(BytesOf(last.pre), 1, last.ret)
              /\ BytesOf(wire \o flight) = SubSeq(BytesOf(last.pre), last.ret + 1, Len(BytesOf(last.pre)))
        /\ last.ret <= 0 => BytesOf(wire \o flight) = BytesOf(last.pre)

C10_Witness ==
    /\ last.op = "read"
    /\ RehandshakeRequest \in Range(last.ev)
    /\ Ev("gnutls_handshake", Code(GNUTLS_E_AGAIN))
    /\ last.ret > 0
    /\ BytesOf(wire \o flight) # <<>>

(***************************************************************************)
(* C11: the verifier accepts the leaf certificate's validity period        *)
(* exactly when activation_time <= current_time < expiration_time; an      *)
(* expiration_time equal to the current time is rejected, and an undefined *)
(* (-1) activation or expiration timestamp is rejected.                    *)
(***************************************************************************)
\* every check of the verifier but those of the validity period passes
ChecksBesideValidityPass ==
    /\ last.cert.verify
    /\ last.cert.status = {}
    /\ last.cert.type = GNUTLS_CRT_X509
    /\ last.cert.crt_init /\ last.cert.peers /\ last.cert.import
    /\ last.cn # NoName => last.cert.name = last.cn

C11_ValidityHalfOpen ==
    (last.op = "verify" /\ ChecksBesideValidityPass) =>
        (last.ret = SOCK_OK <=>
            /\ last.cert.activation # -1
            /\ last.cert.expiration # -1
            /\ last.cert.activation <= Now
            /\ Now < last.cert.expiration)

(***************************************************************************)
(* C12: peer certificate verification returns PeerCertVerifyError for each *)
(* of these on its own: chain verification failure, a trust status with    *)
(* invalid / signer-not-found / signer-not-a-CA / revoked set, a non-X.509 *)
(* certificate type, an expired leaf, a not-yet-valid leaf, a hostname     *)
(* mismatch when a hostname is configured; it returns OK only when every   *)
(* check passes, and the hostname check is skipped only when no hostname   *)
(* is configured.                                                          *)
(***************************************************************************)
ChainVerified == last.cert.verify /\ last.cert.status \cap StatusFlags = {}

LeafDecoded ==
    last.cert.type = GNUTLS_CRT_X509 /\ last.cert.crt_init /\ last.cert.peers /\ last.cert.import

\* the current time lies in [activation_time, expiration_time), both defined
LeafNotExpired == last.cert.expiration # -1 /\ Now < last.cert.expiration

LeafActivated == last.cert.activation # -1 /\ last.cert.activation <= Now

HostnameAccepted == last.cn = NoName \/ last.cert.name = last.cn

C12_EachCheckRejectsOnItsOwn ==
    last.op = "verify" =>
        /\ last.ret \in {SOCK_OK, SOCK_PEER_CERT_VERIFY_ERROR}
        /\ last.ret = SOCK_OK <=>
              (ChainVerified /\ LeafDecoded /\ LeafNotExpired /\ LeafActivated /\ HostnameAccepted)

(***************************************************************************)
(* C13: connection construction returns OK only after the handshake        *)
(* procedure has returned success, and for the Client role only after peer *)
(* certificate verification has also returned OK; verification runs once   *)
(* per connection, immediately after the initial handshake, and never      *)
(* again, so a connection the caller can read or write has a completed     *)
(* handshake and, for a client, a verified peer.                           *)
(***************************************************************************)
HandshakeSuccess == <<"gnutls_handshake", Code(GNUTLS_E_SUCCESS)>>

C13_OkOnlyAfterHandshakeAndVerify ==
    /\ IsConstruction =>
          /\ \A i \in 1 .. Len(last.ev) : last.ev[i][1] = "verify_peers" =>
                (i > 1 /\ last.ev[i - 1] = HandshakeSuccess)
          /\ Count(last.ev, "verify_peers") <= 1
    /\ (IsConstruction /\ last.ret = SOCK_OK) =>
          /\ HandshakeSuccess \in Range(last.ev)
          /\ eng.hs
          /\ s.type = TLS6SOCK_CLIENT =>
                /\ Count(last.ev, "verify_peers") = 1
                /\ last.ev[Len(last.ev)][1] = "verify_peers" \/ last.ev[Len(last.ev)][1] = "freeaddrinfo"
                /\ eng.verified
    /\ last.op \in {"rehandshake", "close"} => ~Has(last.ev, "verify_peers")
    /\ up => (eng.hs /\ (s.type = TLS6SOCK_CLIENT => eng.verified))

C13_Witness ==
    /\ last.op = "open_from_sockaddr_in6"
    /\ last.ret = SOCK_OK
    /\ Count(last.ev, "gnutls_handshake") >= 2
    /\ Has(last.ev, "verify_peers")

(***************************************************************************)
(* C14: no operation blocks without bound.  Against a peer that never      *)
(* responds, every handshake, read, write and accept call that has started *)
(* eventually returns, with TimeoutError unless a signal interrupted it,   *)
(* and every close call eventually ends its close-notify loop and releases *)
(* the connection.                                                         *)
(***************************************************************************)
WaitReturned == InWait /\ last.pc = "done"

C14_NoUnboundedBlocking ==
    /\ [](InWait => <>WaitReturned)
    /\ []((WaitReturned /\ last.op # "close" /\ ~last.sig) => last.ret = SOCK_TIMEOUT)
    /\ []((WaitReturned /\ last.op = "close") => (~up /\ s = ZeroSock /\ fds = {1} /\ sessions = {}))

C14_Witness ==
    /\ WaitReturned
    /\ last.op = "read"
    /\ last.ret = SOCK_TIMEOUT
    /\ last.waited = MaxWait

(***************************************************************************)
(* C15: a tls6ssock_accept call accepts exactly one pending connection.    *)
(* Once accept() has returned a descriptor (any value but -1) the call     *)
(* stops accepting, uses that descriptor for the new Server-role           *)
(* Connection and runs the handshake pipeline on it before returning; no   *)
(* accepted descriptor is discarded or overwritten by a further accept.    *)
(***************************************************************************)
\* the places in the log where accept() returned a descriptor
Accepted == { i \in 1 .. Len(last.ev) : last.ev[i][1] = "accept" /\ last.ev[i][2] # -1 }

C15_AcceptsExactlyOne ==
    last.op = "accept" =>
        \A i \in Accepted :
            /\ \A j \in i + 1 .. Len(last.ev) : last.ev[j][1] \notin {"accept", "select_listener"}
            /\ i < Len(last.ev)
            /\ last.ev[i + 1] = <<"set_non_blocking", last.ev[i][2]>>
            /\ IF last.ret = SOCK_OK
               THEN s.sd = last.ev[i][2] /\ s.type = TLS6SOCK_SERVER /\ HandshakeSuccess \in Range(last.ev)
               ELSE CountArg(last.ev, "close", last.ev[i][2]) = 1

(***************************************************************************)
(* C16: tls6sock_close attempts the mutual close-notify exchange at least  *)
(* once before it releases anything, and on every outcome of the exchange  *)
(* (success, interruption, timeout, wait failure, engine error) it then    *)
(* releases the TLS session, closes the socket exactly once and zeroes the *)
(* Connection, reporting no error to the caller.                           *)
(***************************************************************************)
C16_CloseAlwaysReleases ==
    last.op = "close" =>
        /\ Has(last.ev, "gnutls_bye")
        /\ \A r \in {"cache_set", "gnutls_free", "gnutls_deinit", "close", "memset"} :
              \A i \in 1 .. Len(last.ev) : last.ev[i][1] = r => First(last.ev, "gnutls_bye") < i
        /\ Count(last.ev, "gnutls_deinit") = 1
        /\ Ev("gnutls_deinit", last.session)
        /\ Count(last.ev, "close") = 1
        /\ Ev("close", last.sd)
        /\ ~Has(last.ev, "close_EBADF")
        /\ ~Has(last.ev, "gnutls_deinit_BAD")
        /\ Before(last.ev, "gnutls_deinit", "memset")
        /\ Before(last.ev, "close", "memset")
        /\ last.sd \notin fds
        /\ last.session \notin sessions
        /\ s = ZeroSock
        /\ last.ret = "void"

C16_Witness ==
    /\ last.op = "close"
    /\ Ev("gnutls_bye", Code(GNUTLS_E_AGAIN))
    /\ Ev("select_read", Code(SEL_TIMEOUT))
    /\ Count(last.ev, "gnutls_bye") >= 2
    /\ s = ZeroSock

(***************************************************************************)
(* C17: the handshake procedure maps its outcomes as follows: engine       *)
(* success gives OK; a warning alert gives WarningAlert; an interrupted    *)
(* engine call gives Interrupted; a would-block is followed by one wait    *)
(* for read-readiness and a retry; expiry of that wait gives TimeoutError, *)
(* its interruption gives Interrupted, and any other wait failure or any   *)
(* other engine outcome gives HandshakeError.  The procedure's result is   *)
(* observed where a constructor hands it on: tls6sock_open_from_sockaddr_  *)
(* in6 and tls6ssock_accept return a failed handshake's result unchanged   *)
(* and go on to the steps after the handshake only when it returned OK.    *)
(***************************************************************************)
HandshakeRan == last.op \in {"open_from_sockaddr_in6", "accept"} /\ Has(last.ev, "gnutls_handshake")

\* the last step of the handshake loop: an engine call or a wait
HandshakeSteps == SelectSeq(last.ev, LAMBDA e : e[1] \in {"gnutls_handshake", "select_read"})

HandshakeLast == HandshakeSteps[Len(HandshakeSteps)]

\* the constructor went on past the handshake
WentOn == last.ret = SOCK_OK \/ (last.ret = SOCK_PEER_CERT_VERIFY_ERROR /\ Has(last.ev, "verify_peers"))

C17_HandshakeOutcomeMapping ==
    HandshakeRan =>
        /\ HandshakeLast = <<"gnutls_handshake", Code(GNUTLS_E_SUCCESS)>> <=> WentOn
        /\ HandshakeLast = <<"gnutls_handshake", Code(GNUTLS_E_WARNING_ALERT_RECEIVED)>>
              => last.ret = SOCK_TLS_WARNING_ALERT
        /\ HandshakeLast = <<"gnutls_handshake", Code(GNUTLS_E_INTERRUPTED)>> => last.ret = SOCK_INTR
        /\ HandshakeLast = <<"gnutls_handshake", Code(GNUTLS_E_OTHER)>> => last.ret = SOCK_TLS_HANDSHAKE_ERROR
        /\ HandshakeLast = <<"select_read", Code(SEL_TIMEOUT)>> => last.ret = SOCK_TIMEOUT
        /\ HandshakeLast = <<"select_read", Code(SEL_EINTR)>> => last.ret = SOCK_INTR
        /\ HandshakeLast = <<"select_read", Code(SEL_FAIL)>> => last.ret = SOCK_TLS_HANDSHAKE_ERROR
        /\ HandshakeLast \notin {<<"gnutls_handshake", Code(GNUTLS_E_AGAIN)>>, <<"select_read", Code(SEL_READY)>>}
        /\ \A i \in 1 .. Len(HandshakeSteps) - 1 :
              /\ HandshakeSteps[i] = <<"gnutls_handshake", Code(GNUTLS_E_AGAIN)>>
                    <=> HandshakeSteps[i + 1][1] = "select_read"
              /\ HandshakeSteps[i][1] = "select_read"
                    => (HandshakeSteps[i][2] = Code(SEL_READY) /\ HandshakeSteps[i + 1][1] = "gnutls_handshake")
        /\ ~Has(last.ev, "select_write")

C17_Witness ==
    /\ HandshakeRan
    /\ Count(last.ev, "gnutls_handshake") >= 2
    /\ HandshakeLast = <<"select_read", Code(SEL_TIMEOUT)>>
    /\ last.ret = SOCK_TIMEOUT

(***************************************************************************)
(* C18: tls6sock_read returns a positive engine result at once as the byte *)
(* count; returns 0, not an error, when the peer shut down in order;       *)
(* returns Interrupted on an interrupted receive or wait, TimeoutError on  *)
(* the expiry of a wait, ReadError on any other wait failure or receive    *)
(* outcome that is not retried; and when a rehandshake run in place fails  *)
(* it returns that handshake's failure kind unchanged, with no further     *)
(* receive.                                                                *)
(***************************************************************************)
\* the engine calls and waits of a read, in order
ReadSteps == SelectSeq(last.ev, LAMBDA e : e[1] \in {"gnutls_record_recv", "gnutls_handshake", "select_read"})

ReadLast == ReadSteps[Len(ReadSteps)]

\* the last step is a wait of the handshake run in place (it follows a would-block
\* of gnutls_handshake), not of the read loop itself
InHandshakeWait ==
    /\ Len(ReadSteps) >= 2
    /\ ReadLast[1] = "select_read"
    /\ ReadSteps[Len(ReadSteps) - 1] = <<"gnutls_handshake", Code(GNUTLS_E_AGAIN)>>

InReadWait == ReadLast[1] = "select_read" /\ ~InHandshakeWait

C18_ReadOutcomeMapping ==
    last.op = "read" =>
        /\ (ReadLast[1] = "gnutls_record_recv" /\ ReadLast[2] > 0)
              <=> (last.ret > 0 /\ last.ret = ReadLast[2] /\ last.ret <= last.len)
        /\ ReadLast = <<"gnutls_record_recv", 0>> <=> last.ret = 0
        /\ ReadLast = <<"gnutls_record_recv", Code(GNUTLS_E_INTERRUPTED)>> => last.ret = Code(SOCK_INTR)
        /\ ReadLast = <<"gnutls_record_recv", Code(GNUTLS_E_OTHER)>> => last.ret = Code(SOCK_READ_ERROR)
        /\ ReadLast \notin {<<"gnutls_record_recv", Code(GNUTLS_E_AGAIN)>>, RehandshakeRequest,
                            <<"gnutls_handshake", Code(GNUTLS_E_SUCCESS)>>,
                            <<"gnutls_handshake", Code(GNUTLS_E_AGAIN)>>,
                            <<"select_read", Code(SEL_READY)>>}
        /\ (InReadWait /\ ReadLast[2] = Code(SEL_TIMEOUT)) => last.ret = Code(SOCK_TIMEOUT)
        /\ (InReadWait /\ ReadLast[2] = Code(SEL_EINTR)) => last.ret = Code(SOCK_INTR)
        /\ (InReadWait /\ ReadLast[2] = Code(SEL_FAIL)) => last.ret = Code(SOCK_READ_ERROR)
        /\ ReadLast = <<"gnutls_handshake", Code(GNUTLS_E_WARNING_ALERT_RECEIVED)>>
              => last.ret = Code(SOCK_TLS_WARNING_ALERT)
        /\ ReadLast = <<"gnutls_handshake", Code(GNUTLS_E_INTERRUPTED)>> => last.ret = Code(SOCK_INTR)
        /\ ReadLast = <<"gnutls_handshake", Code(GNUTLS_E_OTHER)>> => last.ret = Code(SOCK_TLS_HANDSHAKE_ERROR)
        /\ (InHandshakeWait /\ ReadLast[2] = Code(SEL_TIMEOUT)) => last.ret = Code(SOCK_TIMEOUT)
        /\ (InHandshakeWait /\ ReadLast[2] = Code(SEL_EINTR)) => last.ret = Code(SOCK_INTR)
        /\ (InHandshakeWait /\ ReadLast[2] = Code(SEL_FAIL)) => last.ret = Code(SOCK_TLS_HANDSHAKE_ERROR)
        /\ Count(last.ev, "gnutls_record_recv") >= 1
        /\ \A i \in 1 .. Len(ReadSteps) - 1 :
              ReadSteps[i][1] = "gnutls_record_recv"
                 => ReadSteps[i] \in {<<"gnutls_record_recv", Code(GNUTLS_E_AGAIN)>>, RehandshakeRequest}

\* a rehandshake run in place failed with a handshake error of its wait
C18_Witness ==
    /\ last.op = "read"
    /\ InHandshakeWait
    /\ ReadLast[2] = Code(SEL_FAIL)
    /\ last.ret = Code(SOCK_TLS_HANDSHAKE_ERROR)

(***************************************************************************)
(* C19: tls6sock_write never enters the handshake procedure.  On a         *)
(* would-block it waits for write-readiness, not read-readiness, and       *)
(* retries; every send outcome other than a non-negative count, an         *)
(* interruption or a would-block, a rehandshake signal included, is        *)
(* returned as WriteError; the expiry of the wait gives TimeoutError and   *)
(* an interrupted send or wait gives Interrupted.                          *)
(***************************************************************************)
\* the engine calls and waits of a write, in order
WriteSteps == SelectSeq(last.ev, LAMBDA e : e[1] \in {"gnutls_record_send", "select_write"})

WriteLast == WriteSteps[Len(WriteSteps)]

C19_WriteOutcomeMapping ==
    last.op = "write" =>
        /\ ~Has(last.ev, "gnutls_handshake")
        /\ ~Has(last.ev, "select_read")
        /\ Count(last.ev, "gnutls_record_send") >= 1
        /\ \A i \in 1 .. Len(WriteSteps) - 1 :
              /\ WriteSteps[i] = <<"gnutls_record_send", Code(GNUTLS_E_AGAIN)>>
                    <=> WriteSteps[i + 1][1] = "select_write"
              /\ WriteSteps[i][1] = "select_write"
                    => (WriteSteps[i][2] = Code(SEL_READY) /\ WriteSteps[i + 1][1] = "gnutls_record_send")
        /\ (WriteLast[1] = "gnutls_record_send" /\ WriteLast[2] >= 0) <=> (last.ret >= 0 /\ last.ret = WriteLast[2])
        /\ WriteLast = <<"gnutls_record_send", Code(GNUTLS_E_INTERRUPTED)>> => last.ret = Code(SOCK_INTR)
        /\ WriteLast = <<"gnutls_record_send", Code(GNUTLS_E_REHANDSHAKE)>> => last.ret = Code(SOCK_WRITE_ERROR)
        /\ WriteLast = <<"gnutls_record_send", Code(GNUTLS_E_OTHER)>> => last.ret = Code(SOCK_WRITE_ERROR)
        /\ WriteLast = <<"select_write", Code(SEL_TIMEOUT)>> => last.ret = Code(SOCK_TIMEOUT)
        /\ WriteLast = <<"select_write", Code(SEL_EINTR)>> => last.ret = Code(SOCK_INTR)
        /\ WriteLast = <<"select_write", Code(SEL_FAIL)>> => last.ret = Code(SOCK_WRITE_ERROR)
        /\ WriteLast \notin {<<"gnutls_record_send", Code(GNUTLS_E_AGAIN)>>, <<"select_write", Code(SEL_READY)>>}

\* a rehandshake signal met after a would-block and a wait for write-readiness
C19_Witness ==
    /\ last.op = "write"
    /\ Ev("select_write", Code(SEL_READY))
    /\ WriteLast = <<"gnutls_record_send", Code(GNUTLS_E_REHANDSHAKE)>>
    /\ last.ret = Code(SOCK_WRITE_ERROR)

(***************************************************************************)
(* C20: for every len >= 1, tls6sock_write_full returns exactly len after  *)
(* sending all len bytes in order, each byte exactly once, across any      *)
(* sequence of short writes; if a tls6sock_write returns 0 or a negative   *)
(* error first, tls6sock_write_full returns that value, and never a        *)
(* positive count smaller than len.                                        *)
(***************************************************************************)
\* the results of the tls6sock_write calls of a write_full, in order
WriteRets == SelectSeq(last.ev, LAMBDA e : e[1] = "tls6sock_write_ret")

LastWriteRet == WriteRets[Len(WriteRets)][2]

C20_WriteFullAllOrNothing ==
    last.op = "write_full" =>
        /\ last.ret = last.len \/ last.ret <= 0
        /\ last.ret = last.len =>
              /\ written = last.pre \o last.buf
              /\ \A i \in 1 .. Len(WriteRets) : WriteRets[i][2] > 0
        /\ last.ret <= 0 =>
              /\ last.ret = LastWriteRet
              /\ \A i \in 1 .. Len(WriteRets) - 1 : WriteRets[i][2] > 0
        /\ \E n \in 0 .. last.len : written = last.pre \o SubSeq(last.buf, 1, n)

\* all bytes went out over more than one short write
C20_Witness ==
    /\ last.op = "write_full"
    /\ last.ret = last.len
    /\ Len(WriteRets) >= 2
    /\ written = last.pre \o last.buf

(***************************************************************************)
(* C21: tls6sock_open tries the resolved candidates in list order and      *)
(* stops at the first candidate whose construction ends in success or in   *)
(* any error other than ConnectError, returning that outcome; it returns   *)
(* ConnectError only when every attempted candidate failed with            *)
(* ConnectError (or none was attempted), and AddressError when the         *)
(* resolution itself fails.                                                *)
(***************************************************************************)
HostOpen == last.op = "open" /\ last.timeout >= 0

\* the places in the event log where a candidate is attempted
AttemptMarks == { i \in 1 .. Len(last.ev) : last.ev[i][1] = "attempt" }

IsLastAttempt(i) == i \in AttemptMarks /\ \A j \in AttemptMarks : j <= i

\* the attempt marked at i ended at connect(): socket, connect, close and nothing more
ConnectFailed(i) ==
    /\ i + 3 <= Len(last.ev)
    /\ last.ev[i + 1][1] = "socket"
    /\ last.ev[i + 2][1] = "connect"
    /\ last.ev[i + 3] = <<"close", last.ev[i + 1][2]>>
    /\ i + 4 <= Len(last.ev) => last.ev[i + 4][1] \in {"attempt", "freeaddrinfo"}

IsIPv6Stream(c) == c.family = AF_INET6 /\ c.socktype = SOCK_STREAM

C21_FirstDecisiveCandidate ==
    HostOpen =>
        /\ last.ret = SOCK_ADDR_ERROR <=> ~last.resolved
        /\ ~last.resolved => AttemptMarks = {}
        /\ \A i, j \in AttemptMarks : i < j => last.ev[i][2] < last.ev[j][2]
        /\ \A i \in AttemptMarks : ~IsLastAttempt(i) => ConnectFailed(i)
        /\ \A i \in AttemptMarks :
              (ConnectFailed(i) /\ \E n \in last.ev[i][2] + 1 .. Len(last.list) : IsIPv6Stream(last.list[n]))
                 => ~IsLastAttempt(i)
        /\ last.resolved => (last.ret = SOCK_CONNECT_ERROR <=> \A i \in AttemptMarks : ConnectFailed(i))
        /\ \A i \in AttemptMarks : (IsLastAttempt(i) /\ ~ConnectFailed(i)) =>
              /\ Ev("gnutls_handshake", Code(GNUTLS_E_SUCCESS)) <=> last.ret = SOCK_OK
              /\ Ev("select_read", Code(SEL_TIMEOUT)) <=> last.ret = SOCK_TIMEOUT
              /\ last.ret \in {SOCK_OK, SOCK_TIMEOUT}
              /\ last.ret = SOCK_OK =>
                    (up /\ s.sd = last.ev[i + 1][2] /\ s.sin = last.list[last.ev[i][2]].sin)

\* the first candidate failed at connect and the second was then attempted and succeeded
C21_Witness ==
    /\ HostOpen
    /\ Cardinality(AttemptMarks) = 2
    /\ \E i \in AttemptMarks : ConnectFailed(i) /\ last.ev[i][2] = 1
    /\ last.ret = SOCK_OK

(***************************************************************************)
(* C24: in tls6sock_open, whether a resolved candidate is attempted        *)
(* depends on that candidate's own address family and socket type: every   *)
(* candidate that is an IPv6 stream endpoint is attempted (until the stop  *)
(* condition), and no candidate that is not an IPv6 stream endpoint is     *)
(* ever passed to the IPv6 connect path, whatever the first candidate of   *)
(* the list is.                                                            *)
(***************************************************************************)
Attempted(n) == \E i \in AttemptMarks : last.ev[i][2] = n

\* an attempt on a candidate before the n-th ended the loop
StoppedBefore(n) == \E i \in AttemptMarks : last.ev[i][2] < n /\ ~ConnectFailed(i)

C24_HoldsOnUniformLists ==
    (HostOpen /\ last.resolved
       /\ \A n \in 1 .. Len(last.list) : IsIPv6Stream(last.list[n]) = IsIPv6Stream(last.list[1])) =>
        \A n \in 1 .. Len(last.list) :
            /\ Attempted(n) => IsIPv6Stream(last.list[n])
            /\ (IsIPv6Stream(last.list[n]) /\ ~StoppedBefore(n)) => Attempted(n)

(***************************************************************************)
(* C22: on client establishment the cache lookup by peer address happens   *)
(* before the handshake starts; when a ticket is found and applying it to  *)
(* the session fails, construction returns CacheError, after releasing the *)
(* session and the socket, and no handshake is attempted; when no ticket   *)
(* is found the handshake proceeds normally.  On server establishment no   *)
(* client-cache lookup occurs and the store/retrieve/remove callbacks are  *)
(* registered before the handshake starts.                                 *)
(***************************************************************************)
\* a server construction that got as far as the cache step
ServerCacheStep == last.op = "accept" /\ Has(last.ev, "transport_set_ptr")

C22_CacheStepBeforeHandshake ==
    /\ ClientLookup =>
          /\ Count(last.ev, "cache_get") = 1
          /\ LookupFound = last.before[3][tls6sock_get_addr_string_(last.sin.addr)]
          /\ Before(last.ev, "cache_get", "gnutls_handshake")
          /\ ~Has(last.ev, "db_set_functions")
          /\ LookupFound = 0 =>
                /\ ~Has(last.ev, "session_set_data")
                /\ Has(last.ev, "gnutls_handshake")
                /\ last.ret # SOCK_TLS_CACHE_ERROR
          /\ LookupFound # 0 =>
                /\ Ev("session_set_data", LookupFound)
                /\ Before(last.ev, "session_set_data", "gnutls_handshake")
                /\ last.ret = SOCK_TLS_CACHE_ERROR <=> ~last.set_data
                /\ last.ret = SOCK_TLS_CACHE_ERROR <=> ~Has(last.ev, "gnutls_handshake")
          /\ last.ret = SOCK_TLS_CACHE_ERROR =>
                /\ Count(last.ev, "gnutls_deinit") = 1
                /\ Count(last.ev, "close") = 1
                /\ Before(last.ev, "session_set_data", "gnutls_deinit")
                /\ fds = last.before[1]
                /\ sessions = last.before[2]
                /\ ~up
    /\ last.op = "accept" =>
          /\ ~Has(last.ev, "cache_get")
          /\ ~Has(last.ev, "session_set_data")
          /\ cache = last.before[3]
    /\ ServerCacheStep =>
          /\ Count(last.ev, "db_set_functions") = 1
          /\ Has(last.ev, "gnutls_handshake")
          /\ Before(last.ev, "db_set_functions", "gnutls_handshake")
          /\ eng.db \/ last.ret # SOCK_OK

\* a found ticket could not be applied
C22_Witness ==
    /\ ClientLookup
    /\ LookupFound # 0
    /\ ~last.set_data
    /\ last.ret = SOCK_TLS_CACHE_ERROR
    /\ ~Has(last.ev, "gnutls_handshake")

(***************************************************************************)
(* C23: between successful construction and close, no sequence of read,    *)
(* read_full, write, write_full and rehandshake calls (rehandshakes run in *)
(* place and failing calls included) changes the Connection's role,        *)
(* timeout, peer address or socket descriptor; and closing a Connection or *)
(* failing an accept never closes or modifies the Listener that produced   *)
(* it.                                                                     *)
(***************************************************************************)
\* a step that leaves the connection established
ConnectionKept ==
    (up /\ up') =>
        /\ s'.type = s.type
        /\ s'.timeout = s.timeout
        /\ s'.sin = s.sin
        /\ s'.sd = s.sd
        /\ s'.sd \in fds'

\* a close of the connection, or an accept that fails
ListenerKept ==
    (lup /\ (last'.op = "close" \/ (last'.op = "accept" /\ ~up'))) =>
        /\ ss' = ss
        /\ lup'
        /\ ss.sd \in fds'

C23_UseLeavesIdentityAndListener == [][ConnectionKept /\ ListenerKept]_vars

\* a failing rehandshake on a server connection that has read through a rehandshake
\* request and has written
C23_Witness ==
    /\ last.op = "rehandshake"
    /\ last.ret # SOCK_OK
    /\ Has(last.ev, "gnutls_handshake")
    /\ wire \o flight = <<>>
    /\ written # <<>>
    /\ up /\ lup
    /\ s.sd \in fds /\ ss.sd \in fds

====
